---- MODULE Spec2Model ----
(***************************************************************************)
(* Clashes-Detector: the time parser (lib/time-parser.ts), the clash       *)
(* detector, the session normalizer and the section search                 *)
(* (lib/clash-detector.ts), driven by session lists as the extractor       *)
(* (lib/timetable-extractor.ts) builds them.                               *)
(*                                                                         *)
(* Texts are TLA+ strings and are scanned character by character, as the   *)
(* regular expressions of the source scan them.  A TimetableSession keeps  *)
(* the fields the modelled functions read: day, timeSlot, sessionType,     *)
(* courseName, section, startMinutes, endMinutes (id, room, batch,         *)
(* department, rank and colorCode are only copied by them).                *)
(***************************************************************************)
EXTENDS Integers, Sequences, FiniteSets, TLC

VARIABLES cells, allSessions, pc, clashes, validSessions,
          selectedCourseNames, excludedAssignments, optimal, responses,
          legend, batch, grid, entries, catalog,
          cachedSpreadsheet, cacheTimestamp, now, pending, returned

\* The spreadsheet as the extractors read it and the catalog built from it
sheetVars == <<legend, batch, grid, entries, catalog>>
\* The module state of lib/google-sheets.ts, the clock and the calls of
\* fetchSpreadsheet
cacheVars == <<cachedSpreadsheet, cacheTimestamp, now, pending, returned>>

vars == <<cells, allSessions, pc, clashes, validSessions,
          selectedCourseNames, excludedAssignments, optimal, responses,
          sheetVars, cacheVars>>

(***************************************************************************)
(* Bounds of the model                                                     *)
(***************************************************************************)
MaxDetectSessions == 3
MaxKeySessions == 4
MaxFilterSessions == 4
MaxSearchSessions == 4
MaxRepeatSessions == 2
MaxTimeSessions == 1
MaxOverlapSessions == 2
MaxLegendCells == 2
MaxFetchCalls == 3
MaxCatalogCells == 2
MaxPeriods == 2
MaxBatchSessions == 2
MaxDedupSessions == 3

MaxPassCells == 2

MaxSlotCells == 2

MaxCalls == 3

(***************************************************************************)
(* Program constants                                                       *)
(***************************************************************************)
UNKNOWN_MINUTES == 9999
DEFAULT_CLASS_MINUTES == 50
EXPECTED_LABS_PER_WEEK == 1
EXPECTED_CLASSES_PER_WEEK == 2
Infinity == 1000000
TIMETABLE_SHEETS == <<"Monday", "Tuesday", "Wednesday", "Thursday", "Friday">>

(***************************************************************************)
(* Strings: characters, code units, case, search                           *)
(***************************************************************************)
CharAt(s, i) == SubSeq(s, i, i)

Digits == <<"0", "1", "2", "3", "4", "5", "6", "7", "8", "9">>
UpperCase == <<"A", "B", "C", "D", "E", "F", "G", "H", "I", "J", "K", "L", "M",
               "N", "O", "P", "Q", "R", "S", "T", "U", "V", "W", "X", "Y", "Z">>
LowerCase == <<"a", "b", "c", "d", "e", "f", "g", "h", "i", "j", "k", "l", "m",
               "n", "o", "p", "q", "r", "s", "t", "u", "v", "w", "x", "y", "z">>

\* The printable ASCII characters in code-unit order, from the space (32) on
\* (the double quote, the backslash and the backtick, which no text of the
\* model contains, are held by placeholders).
Ascii == <<" ", "!", "QUOTE", "#", "$", "%", "&", "'", "(", ")", "*", "+", ",", "-",
           ".", "/", "0", "1", "2", "3", "4", "5", "6", "7", "8", "9", ":", ";",
           "<", "=", ">", "?", "@", "A", "B", "C", "D", "E", "F", "G", "H", "I",
           "J", "K", "L", "M", "N", "O", "P", "Q", "R", "S", "T", "U", "V", "W",
           "X", "Y", "Z", "[", "BACKSLASH", "]", "^", "_", "BACKTICK", "a", "b", "c", "d", "e",
           "f", "g", "h", "i", "j", "k", "l", "m", "n", "o", "p", "q", "r", "s",
           "t", "u", "v", "w", "x", "y", "z", "{", "|", "}", "~">>

IndexIn(seq, c) == CHOOSE i \in 1..Len(seq) : seq[i] = c
IsIn(seq, c) == \E i \in 1..Len(seq) : seq[i] = c

DigitSet == {Digits[i] : i \in 1..Len(Digits)}
WordCharSet ==
  DigitSet \cup {UpperCase[i] : i \in 1..Len(UpperCase)}
           \cup {LowerCase[i] : i \in 1..Len(LowerCase)} \cup {"_"}
AsciiSet == {Ascii[i] : i \in 1..Len(Ascii)}

\* The tables of the characters: code unit, lower case, upper case
CharCodes == [c \in AsciiSet |-> IndexIn(Ascii, c) + 31]
LowerCaseOf ==
  [c \in AsciiSet |-> IF IsIn(UpperCase, c) THEN LowerCase[IndexIn(UpperCase, c)] ELSE c]
UpperCaseOf ==
  [c \in AsciiSet |-> IF IsIn(LowerCase, c) THEN UpperCase[IndexIn(LowerCase, c)] ELSE c]

IsDigit(c) == c \in DigitSet
DigitValue(c) == IndexIn(Digits, c) - 1
\* \w of a regular expression
IsWordChar(c) == c \in WordCharSet
CharCode(c) == CharCodes[c]

ToLowerChar(c) == LowerCaseOf[c]
ToUpperChar(c) == UpperCaseOf[c]

RECURSIVE toLowerCase(_)
toLowerCase(s) ==
  IF Len(s) = 0 THEN "" ELSE ToLowerChar(CharAt(s, 1)) \o toLowerCase(Tail(s))

RECURSIVE toUpperCase(_)
toUpperCase(s) ==
  IF Len(s) = 0 THEN "" ELSE ToUpperChar(CharAt(s, 1)) \o toUpperCase(Tail(s))

\* String.prototype.includes
includes(s, sub) ==
  \E i \in 1..(Len(s) - Len(sub) + 1) : SubSeq(s, i, i + Len(sub) - 1) = sub

\* parseInt of a run of decimal digits
RECURSIVE parseInt(_)
parseInt(s) ==
  IF Len(s) = 0 THEN 0
  ELSE 10 * parseInt(SubSeq(s, 1, Len(s) - 1)) + DigitValue(CharAt(s, Len(s)))

\* The order of Array.prototype.sort() without a comparator: by code units,
\* a proper prefix before the longer string.
RECURSIVE StringLess(_, _)
StringLess(a, b) ==
  IF Len(b) = 0 THEN FALSE
  ELSE IF Len(a) = 0 THEN TRUE
  ELSE IF CharAt(a, 1) = CharAt(b, 1) THEN StringLess(Tail(a), Tail(b))
  ELSE CharCode(CharAt(a, 1)) < CharCode(CharAt(b, 1))

(***************************************************************************)
(* lib/time-parser.ts                                                      *)
(***************************************************************************)
\* One attempt of /(\d{1,2}):(\d{2})/ at position p: the hour takes two digits
\* if the rest then matches, else one.  The result is <<hour, minute, length>>
\* or the empty sequence.
TimeTokenAt(s, p) ==
  LET digit(i) == i <= Len(s) /\ IsDigit(CharAt(s, i))
      colon(i) == i <= Len(s) /\ CharAt(s, i) = ":"
  IN  IF digit(p) /\ digit(p + 1) /\ colon(p + 2) /\ digit(p + 3) /\ digit(p + 4)
        THEN <<SubSeq(s, p, p + 1), SubSeq(s, p + 3, p + 4), 5>>
      ELSE IF digit(p) /\ colon(p + 1) /\ digit(p + 2) /\ digit(p + 3)
        THEN <<SubSeq(s, p, p), SubSeq(s, p + 2, p + 3), 4>>
      ELSE <<>>

\* timeSlot.matchAll(timeRegex): every match, left to right, without overlap
RECURSIVE MatchAllTime(_, _)
MatchAllTime(s, p) ==
  IF p > Len(s) THEN <<>>
  ELSE LET m == TimeTokenAt(s, p)
       IN  IF m = <<>> THEN MatchAllTime(s, p + 1)
           ELSE <<m>> \o MatchAllTime(s, p + m[3])

\* timeSlot.matchAll(/\b(am|pm|AM|PM)\b/gi): the matched texts
RECURSIVE MatchAllAmPm(_, _)
MatchAllAmPm(s, p) ==
  IF p + 1 > Len(s) THEN <<>>
  ELSE LET word == SubSeq(s, p, p + 1)
           before == p = 1 \/ ~IsWordChar(CharAt(s, p - 1))
           after == p + 2 > Len(s) \/ ~IsWordChar(CharAt(s, p + 2))
       IN  IF toLowerCase(word) \in {"am", "pm"} /\ before /\ after
             THEN <<word>> \o MatchAllAmPm(s, p + 2)
             ELSE MatchAllAmPm(s, p + 1)

Min(a, b) == IF a <= b THEN a ELSE b

\* A heuristic that takes the hours 1 to 6 as PM and leaves 7 as it is
parseTimeSevenAM(match, timeSlot, matchIndex) ==
  LET hour == parseInt(match[1])
      minute == parseInt(match[2])
      ampmMatches == MatchAllAmPm(timeSlot, 1)
      hour24 ==
        IF Len(ampmMatches) > 0
          THEN LET ampm == toUpperCase(
                             ampmMatches[Min(matchIndex, Len(ampmMatches) - 1) + 1])
               IN  IF ampm = "PM" /\ hour # 12 THEN hour + 12
                   ELSE IF ampm = "AM" /\ hour = 12 THEN 0
                   ELSE hour
          ELSE IF hour >= 8 /\ hour <= 11 THEN hour
               ELSE IF hour = 12 THEN 12
               ELSE IF hour >= 1 /\ hour < 7 THEN hour + 12
               ELSE hour
  IN  hour24 * 60 + minute

parseTime(match, timeSlot, matchIndex) ==
  LET hour == parseInt(match[1])
      minute == parseInt(match[2])
      ampmMatches == MatchAllAmPm(timeSlot, 1)
      hour24 ==
        IF Len(ampmMatches) > 0
          THEN LET ampm == toUpperCase(
                             ampmMatches[Min(matchIndex, Len(ampmMatches) - 1) + 1])
               IN  IF ampm = "PM" /\ hour # 12 THEN hour + 12
                   ELSE IF ampm = "AM" /\ hour = 12 THEN 0
                   ELSE hour
          ELSE IF hour >= 8 /\ hour <= 11 THEN hour
               ELSE IF hour = 12 THEN 12
               ELSE IF hour >= 1 /\ hour <= 7 THEN hour + 12
               ELSE hour
  IN  hour24 * 60 + minute

parseTimeSlot(timeSlot) ==
  IF timeSlot = "" \/ timeSlot = "Unknown"
    THEN [start |-> UNKNOWN_MINUTES, end |-> UNKNOWN_MINUTES]
  ELSE LET matches == MatchAllTime(timeSlot, 1)
       IN  IF Len(matches) = 0
             THEN [start |-> UNKNOWN_MINUTES, end |-> UNKNOWN_MINUTES]
           ELSE LET startMinutes == parseTime(matches[1], timeSlot, 0)
                    endMinutes == IF Len(matches) > 1
                                    THEN parseTime(matches[2], timeSlot, 1)
                                    ELSE startMinutes + DEFAULT_CLASS_MINUTES
                IN  [start |-> startMinutes, end |-> endMinutes]

doTimeSlotsOverlap(slot1, slot2) ==
  LET time1 == parseTimeSlot(slot1)
      time2 == parseTimeSlot(slot2)
  IN  IF time1.start = UNKNOWN_MINUTES \/ time2.start = UNKNOWN_MINUTES THEN FALSE
      ELSE ~(time1.end <= time2.start \/ time2.end <= time1.start)

(***************************************************************************)
(* JavaScript objects used as maps: Object.keys / Object.entries list the  *)
(* keys that are array indices first, in ascending numeric order, then the *)
(* other keys in insertion order.                                          *)
(***************************************************************************)
\* The keys in the order of their first insertion
RECURSIVE InsertionOrder(_)
InsertionOrder(keys) ==
  IF Len(keys) = 0 THEN <<>>
  ELSE LET init == InsertionOrder(SubSeq(keys, 1, Len(keys) - 1))
           last == keys[Len(keys)]
       IN  IF IsIn(init, last) THEN init ELSE Append(init, last)

\* A canonical array index: decimal digits without a leading zero (the texts
\* of the model are far below the limit of 2^32 - 2).
IsArrayIndex(key) ==
  /\ Len(key) > 0
  /\ \A i \in 1..Len(key) : IsDigit(CharAt(key, i))
  /\ (Len(key) = 1 \/ CharAt(key, 1) # "0")

RECURSIVE AscendingIndices(_)
AscendingIndices(keys) ==
  IF Len(keys) = 0 THEN <<>>
  ELSE LET least == CHOOSE i \in 1..Len(keys) :
                      \A j \in 1..Len(keys) : parseInt(keys[i]) <= parseInt(keys[j])
           others(k) == k # keys[least]
       IN  <<keys[least]>> \o AscendingIndices(SelectSeq(keys, others))

ObjectKeys(inserted) ==
  LET keys == InsertionOrder(inserted)
      isIndex(k) == IsArrayIndex(k)
      isName(k) == ~IsArrayIndex(k)
  IN  AscendingIndices(SelectSeq(keys, isIndex)) \o SelectSeq(keys, isName)

\* Array.prototype.slice(0, n)
Slice(seq, n) == SubSeq(seq, 1, Min(n, Len(seq)))

\* Array.prototype.sort() of strings
RECURSIVE SortStrings(_)
SortStrings(seq) ==
  IF Len(seq) = 0 THEN <<>>
  ELSE LET least == CHOOSE i \in 1..Len(seq) :
                      \A j \in 1..Len(seq) : ~StringLess(seq[j], seq[i])
           rest == [k \in 1..(Len(seq) - 1) |-> IF k < least THEN seq[k] ELSE seq[k + 1]]
       IN  <<seq[least]>> \o SortStrings(rest)

\* Array.prototype.join
RECURSIVE Join(_, _)
Join(seq, sep) ==
  IF Len(seq) = 0 THEN ""
  ELSE IF Len(seq) = 1 THEN seq[1]
  ELSE seq[1] \o sep \o Join(Tail(seq), sep)

(***************************************************************************)
(* lib/timetable-extractor.ts: the session built for a matched cell        *)
(***************************************************************************)
Session(day, timeSlot, courseName, section, isLab) ==
  LET sessionType == IF isLab \/ includes(toLowerCase(courseName), "lab")
                       THEN "Lab" ELSE "Class"
      time == parseTimeSlot(timeSlot)
  IN  [day |-> day, timeSlot |-> timeSlot, sessionType |-> sessionType,
       courseName |-> courseName, section |-> section,
       startMinutes |-> time.start, endMinutes |-> time.end]

\* A comparison that tells course names apart by their case
isSimilarSessionExactName(session1, session2) ==
  /\ session1.day = session2.day
  /\ session1.timeSlot = session2.timeSlot
  /\ session1.courseName = session2.courseName
  /\ session1.section = session2.section

isSimilarSession(session1, session2) ==
  /\ session1.day = session2.day
  /\ session1.timeSlot = session2.timeSlot
  /\ toLowerCase(session1.courseName) = toLowerCase(session2.courseName)
  /\ session1.section = session2.section

(***************************************************************************)
(* lib/clash-detector.ts: detectClashes                                    *)
(***************************************************************************)
\* A comparison that only asks whether the first session ends before the
\* second starts
doSessionsOverlapOneSided(session1, session2) ==
  IF session1.startMinutes # UNKNOWN_MINUTES /\ session2.startMinutes # UNKNOWN_MINUTES
    THEN ~(session1.endMinutes <= session2.startMinutes)
    ELSE doTimeSlotsOverlap(session1.timeSlot, session2.timeSlot)

\* A comparison that counts two sessions that only touch as overlapping
doSessionsOverlapClosed(session1, session2) ==
  IF session1.startMinutes # UNKNOWN_MINUTES /\ session2.startMinutes # UNKNOWN_MINUTES
    THEN ~(session1.endMinutes < session2.startMinutes
           \/ session2.endMinutes < session1.startMinutes)
    ELSE doTimeSlotsOverlap(session1.timeSlot, session2.timeSlot)

\* A comparison that takes a session without a known time to overlap
doSessionsOverlapUnknown(session1, session2) ==
  IF session1.startMinutes # UNKNOWN_MINUTES /\ session2.startMinutes # UNKNOWN_MINUTES
    THEN ~(session1.endMinutes <= session2.startMinutes
           \/ session2.endMinutes <= session1.startMinutes)
    ELSE TRUE

doSessionsOverlap(session1, session2) ==
  IF session1.startMinutes # UNKNOWN_MINUTES /\ session2.startMinutes # UNKNOWN_MINUTES
    THEN ~(session1.endMinutes <= session2.startMinutes
           \/ session2.endMinutes <= session1.startMinutes)
    ELSE doTimeSlotsOverlap(session1.timeSlot, session2.timeSlot)

\* A test that skips only the pairs of one section of one course
SameCourseAndSection(session1, session2) ==
  /\ session1.courseName = session2.courseName
  /\ session1.section = session2.section

\* A key built without sorting the names
clashKeyUnsorted(session1, session2) ==
  Join(<<session1.courseName, session2.courseName, session1.day>>, "_")

\* "Same course different sections don't count as clash"
SameCourse(session1, session2) == session1.courseName = session2.courseName

clashKey(session1, session2) ==
  Join(SortStrings(<<session1.courseName, session2.courseName, session1.day>>), "_")

Clash(session1, session2) ==
  [course1 |-> session1.courseName, course2 |-> session2.courseName,
   day |-> session1.day,
   timeSlot1 |-> session1.timeSlot, timeSlot2 |-> session2.timeSlot,
   section1 |-> session1.section, section2 |-> session2.section]

\* The two nested loops, from the pair (i, j) on, with the clashes and the
\* keys collected so far
RECURSIVE detectClashesFrom(_, _, _, _, _)
detectClashesFrom(sessions, i, j, found, seenClashes) ==
  IF i > Len(sessions) THEN found
  ELSE IF j > Len(sessions)
    THEN detectClashesFrom(sessions, i + 1, i + 2, found, seenClashes)
  ELSE LET session1 == sessions[i]
           session2 == sessions[j]
           clashKey12 == clashKey(session1, session2)
       IN  IF /\ ~SameCourse(session1, session2)
              /\ session1.day = session2.day
              /\ doSessionsOverlap(session1, session2)
              /\ clashKey12 \notin seenClashes
             THEN detectClashesFrom(sessions, i, j + 1,
                                    Append(found, Clash(session1, session2)),
                                    seenClashes \cup {clashKey12})
             ELSE detectClashesFrom(sessions, i, j + 1, found, seenClashes)

detectClashes(sessions) == detectClashesFrom(sessions, 1, 2, <<>>, {})

(***************************************************************************)
(* lib/clash-detector.ts: filterValidSessions                              *)
(***************************************************************************)
\* A filter that keeps the last session of each key instead of the first
RECURSIVE removeDuplicateDaysKeepLast(_)
removeDuplicateDaysKeepLast(sessions) ==
  IF Len(sessions) = 0 THEN <<>>
  ELSE LET first == sessions[1]
           rest == Tail(sessions)
           key(s) == s.day \o "_" \o s.sessionType
           again == \E i \in 1..Len(rest) : key(rest[i]) = key(first)
       IN  IF again THEN removeDuplicateDaysKeepLast(rest)
           ELSE <<first>> \o removeDuplicateDaysKeepLast(rest)

\* Keep the first session of each `${day}_${sessionType}` key
RECURSIVE removeDuplicateDays(_)
removeDuplicateDays(sessions) ==
  IF Len(sessions) = 0 THEN <<>>
  ELSE LET init == SubSeq(sessions, 1, Len(sessions) - 1)
           last == sessions[Len(sessions)]
           key(s) == s.day \o "_" \o s.sessionType
           seen == \E i \in 1..Len(init) : key(init[i]) = key(last)
       IN  IF seen THEN removeDuplicateDays(init)
           ELSE Append(removeDuplicateDays(init), last)

\* The sessions kept for one entry of courseSessionsMap
filterCourse(courseName, courseSessions) ==
  LET isLabCourse == includes(toLowerCase(courseName), "lab")
      isLabSession(s) == s.sessionType = "Lab"
      isClassSession(s) == s.sessionType = "Class"
      uniqueLabSessions == removeDuplicateDays(SelectSeq(courseSessions, isLabSession))
      uniqueClassSessions == removeDuplicateDays(SelectSeq(courseSessions, isClassSession))
  IN  IF isLabCourse
        THEN Slice(uniqueLabSessions, EXPECTED_LABS_PER_WEEK)
        ELSE Slice(uniqueClassSessions, EXPECTED_CLASSES_PER_WEEK)
             \o Slice(uniqueLabSessions, EXPECTED_LABS_PER_WEEK)

\* A loop that puts the sessions of each entry in front of the result
RECURSIVE filterEntriesInFront(_, _)
filterEntriesInFront(courseNames, sessions) ==
  IF Len(courseNames) = 0 THEN <<>>
  ELSE LET ofCourse(s) == s.courseName = courseNames[1]
       IN  filterEntriesInFront(Tail(courseNames), sessions)
           \o filterCourse(courseNames[1], SelectSeq(sessions, ofCourse))

\* The entries of courseSessionsMap, visited in the order of Object.entries
RECURSIVE filterEntries(_, _)
filterEntries(courseNames, sessions) ==
  IF Len(courseNames) = 0 THEN <<>>
  ELSE LET ofCourse(s) == s.courseName = courseNames[1]
       IN  filterCourse(courseNames[1], SelectSeq(sessions, ofCourse))
           \o filterEntries(Tail(courseNames), sessions)

\* A filter that keeps the last two sessions of the schedule
filterValidSessionsLastTwo(sessions) ==
  IF Len(sessions) <= 2 THEN sessions ELSE SubSeq(sessions, Len(sessions) - 1, Len(sessions))

filterValidSessions(sessions) ==
  filterEntries(ObjectKeys([i \in 1..Len(sessions) |-> sessions[i].courseName]),
                sessions)

(***************************************************************************)
(* lib/clash-detector.ts: the gap score and the comparison of candidates   *)
(***************************************************************************)
\* Array.prototype.sort((a, b) => a.startMinutes - b.startMinutes): stable
RECURSIVE sortByStart(_)
sortByStart(sessions) ==
  IF Len(sessions) = 0 THEN <<>>
  ELSE LET least == CHOOSE i \in 1..Len(sessions) :
                      /\ \A j \in 1..Len(sessions) :
                           sessions[i].startMinutes <= sessions[j].startMinutes
                      /\ \A j \in 1..(i - 1) :
                           sessions[j].startMinutes # sessions[i].startMinutes
           rest == [k \in 1..(Len(sessions) - 1) |->
                      IF k < least THEN sessions[k] ELSE sessions[k + 1]]
       IN  <<sessions[least]>> \o sortByStart(rest)

\* The gaps between consecutive sessions of one day, from position i on
\* A sum of the differences between consecutive sessions, negative ones
\* included
RECURSIVE dayGapsSigned(_, _)
dayGapsSigned(sorted, i) ==
  IF i > Len(sorted) - 1 THEN 0
  ELSE (sorted[i + 1].startMinutes - sorted[i].endMinutes) + dayGapsSigned(sorted, i + 1)

RECURSIVE dayGaps(_, _)
dayGaps(sorted, i) ==
  IF i > Len(sorted) - 1 THEN 0
  ELSE LET currentEnd == sorted[i].endMinutes
           nextStart == sorted[i + 1].startMinutes
       IN  (IF nextStart > currentEnd THEN nextStart - currentEnd ELSE 0)
           + dayGaps(sorted, i + 1)

RECURSIVE sumDays(_, _)
sumDays(days, sessions) ==
  IF Len(days) = 0 THEN 0
  ELSE LET onDay(s) == s.day = days[1]
           hasTime(s) == s.startMinutes # UNKNOWN_MINUTES
           sorted == sortByStart(SelectSeq(SelectSeq(sessions, onDay), hasTime))
       IN  dayGaps(sorted, 1) + sumDays(Tail(days), sessions)

calculateTotalGapScore(sessions) ==
  sumDays(ObjectKeys([i \in 1..Len(sessions) |-> sessions[i].day]), sessions)

\* A comparison without the tie-break on the gap score
isBetterScheduleByClashes(candidate, current) ==
  candidate.clashCount < current.clashCount

\* A comparison that also prefers a candidate with the same clash count and
\* the same gap score
isBetterScheduleOrEqual(candidate, current) ==
  \/ candidate.clashCount < current.clashCount
  \/ candidate.clashCount = current.clashCount /\ candidate.gapScore <= current.gapScore

isBetterSchedule(candidate, current) ==
  IF candidate.clashCount < current.clashCount THEN TRUE
  ELSE IF candidate.clashCount > current.clashCount THEN FALSE
  ELSE candidate.gapScore < current.gapScore

(***************************************************************************)
(* lib/clash-detector.ts: findOptimalSchedule                              *)
(*                                                                         *)
(* courseSessionsMap is read through its two lookups; excludedAssignments  *)
(* is a function from course names to arrays of section names; an          *)
(* assignments object is a function from course names to sections; the     *)
(* message is kept as its kind and the values printed in it.               *)
(***************************************************************************)
\* courseSessionsMap[courseName][section] || []
sectionSessions(sessions, selected, courseName, section) ==
  LET grouped(s) == /\ IsIn(selected, s.courseName)
                    /\ s.courseName = courseName
                    /\ s.section = section
  IN  SelectSeq(sessions, grouped)

\* Object.keys(courseSessionsMap[courseName] || {})
allSections(sessions, selected, courseName) ==
  LET grouped(s) == IsIn(selected, s.courseName) /\ s.courseName = courseName
      ofCourse == SelectSeq(sessions, grouped)
  IN  ObjectKeys([i \in 1..Len(ofCourse) |-> ofCourse[i].section])

\* excludedAssignments[courseName] || []
excludedSections(excluded, courseName) ==
  IF courseName \in DOMAIN excluded THEN excluded[courseName] ELSE <<>>

\* The sections of a course without the filter on the exclusions
availableSectionsUnfiltered(sessions, selected, excluded, courseName) ==
  allSections(sessions, selected, courseName)

\* A listing that holds every available section twice
availableSectionsRepeated(sessions, selected, excluded, courseName) ==
  LET notExcluded(s) == ~IsIn(excludedSections(excluded, courseName), s)
  IN  SelectSeq(allSections(sessions, selected, courseName), notExcluded)
        \o SelectSeq(allSections(sessions, selected, courseName), notExcluded)

availableSections(sessions, selected, excluded, courseName) ==
  LET notExcluded(s) == ~IsIn(excludedSections(excluded, courseName), s)
  IN  SelectSeq(allSections(sessions, selected, courseName), notExcluded)

\* The courseOptions built by the loop over the first n selected courses
courseOptions(sessions, selected, excluded, n) ==
  [i \in 1..n |->
     [courseName |-> selected[i],
      sections |-> availableSections(sessions, selected, excluded, selected[i])]]

NoBest ==
  [assignments |-> <<>>, schedule |-> <<>>, clashCount |-> Infinity,
   gapScore |-> Infinity]

\* { ...currentAssignments, [courseName]: section }
Assign(currentAssignments, courseName, section) ==
  [c \in (DOMAIN currentAssignments) \cup {courseName} |->
     IF c = courseName THEN section ELSE currentAssignments[c]]

\* A pruning that skips every clashing branch, a clash-free result known or not
pruneAnyClash(bestResult, index, newSchedule) ==
  /\ index >= 1
  /\ Len(detectClashes(filterValidSessions(newSchedule))) > 0

\* "Early pruning": the branch of newSchedule is skipped
prune(bestResult, index, newSchedule) ==
  /\ bestResult.clashCount = 0
  /\ index >= 1
  /\ Len(detectClashes(filterValidSessions(newSchedule))) > 0

\* The CombinationResult of a complete assignment and its valid schedule
candidate(currentAssignments, validSchedule) ==
  [assignments |-> currentAssignments,
   schedule |-> validSchedule,
   clashCount |-> Len(detectClashes(validSchedule)),
   gapScore |-> calculateTotalGapScore(validSchedule)]

\* "if (isBetterSchedule(result, bestResult)) bestResult = result", with the
\* leaves evaluated up to the end of the recursive call
keepBetter(result, bestSoFar) ==
  [best |-> IF isBetterSchedule(result.best, bestSoFar.best)
              THEN result.best ELSE bestSoFar.best,
   leaves |-> result.leaves]

\* A base case that counts the clashes of the sessions as collected, before
\* filterValidSessions
leafUnfiltered(currentAssignments, currentSchedule) ==
  LET validSchedule == filterValidSessions(currentSchedule)
  IN  [assignments |-> currentAssignments,
       schedule |-> validSchedule,
       clashCount |-> Len(detectClashes(currentSchedule)),
       gapScore |-> calculateTotalGapScore(validSchedule)]

\* The base case: the candidate of a complete assignment
leaf(currentAssignments, currentSchedule) ==
  candidate(currentAssignments, filterValidSessions(currentSchedule))

\* findBestCombination returns the best CombinationResult; the model returns
\* with it the assignments of the leaves evaluated so far, in order.
\* index counts from 0 as in the source; k is the position of the loop
\* "for (const section of sections)", so a call of the function is the
\* operator with k = 1, and bestSoFar.best is bestResult from then on; a
\* call without bestSoFar passes NoBest, the value the source substitutes
\* for null.
RECURSIVE findBestCombination(_, _, _, _, _, _, _, _)
findBestCombination(options, sessions, selected, index, currentAssignments, currentSchedule, bestSoFar, k) ==
  IF index = Len(options)
    THEN [best |-> leaf(currentAssignments, currentSchedule),
          leaves |-> Append(bestSoFar.leaves, currentAssignments)]
  ELSE LET courseName == options[index + 1].courseName
           sections == options[index + 1].sections
       IN  IF k > Len(sections) THEN bestSoFar
           ELSE LET section == sections[k]
                    newAssignments == Assign(currentAssignments, courseName, section)
                    newSchedule ==
                      currentSchedule
                        \o sectionSessions(sessions, selected, courseName, section)
                IN  IF prune(bestSoFar.best, index, newSchedule)
                      THEN findBestCombination(options, sessions, selected, index,
                                               currentAssignments, currentSchedule,
                                               bestSoFar, k + 1)
                      ELSE findBestCombination(
                             options, sessions, selected, index,
                             currentAssignments, currentSchedule,
                             keepBetter(
                               findBestCombination(
                                 options, sessions, selected, index + 1,
                                 newAssignments, newSchedule, bestSoFar, 1),
                               bestSoFar),
                             k + 1)

\* The index of the last selected course without an available section, or 0
lastWithoutSection(sessions, selected, excluded) ==
  LET none(i) == Len(availableSections(sessions, selected, excluded, selected[i])) = 0
  IN  IF \E i \in 1..Len(selected) : none(i)
        THEN CHOOSE i \in 1..Len(selected) :
               none(i) /\ \A j \in (i + 1)..Len(selected) : ~none(j)
        ELSE 0

\* The index of the first selected course without an available section, or 0
firstWithoutSection(sessions, selected, excluded) ==
  LET none(i) == Len(availableSections(sessions, selected, excluded, selected[i])) = 0
  IN  IF \E i \in 1..Len(selected) : none(i)
        THEN CHOOSE i \in 1..Len(selected) :
               none(i) /\ \A j \in 1..(i - 1) : ~none(j)
        ELSE 0

\* The result of a search that ended with found.best as the best candidate
searchResult(found) ==
  IF found.best.clashCount = 0
    THEN [success |-> TRUE, schedule |-> found.best.schedule,
          assignments |-> found.best.assignments,
          clashes |-> <<>>,
          message |-> [kind |-> "Found a clash-free schedule",
                       courseName |-> "",
                       minimumClashes |-> 0,
                       gapScore |-> found.best.gapScore],
          leaves |-> found.leaves]
    ELSE [success |-> FALSE, schedule |-> found.best.schedule,
          assignments |-> found.best.assignments,
          clashes |-> detectClashes(found.best.schedule),
          message |-> [kind |-> "Could not find a clash-free schedule",
                       courseName |-> "",
                       minimumClashes |-> found.best.clashCount,
                       gapScore |-> 0],
          leaves |-> found.leaves]

\* The result for a selected course without an available section
noSectionResult(courseName) ==
  [success |-> FALSE, schedule |-> <<>>, assignments |-> <<>>,
   clashes |-> <<>>,
   message |-> [kind |-> "No available sections", courseName |-> courseName,
                minimumClashes |-> 0, gapScore |-> 0],
   leaves |-> <<>>]

findOptimalSchedule(sessions, selected, excluded) ==
  IF firstWithoutSection(sessions, selected, excluded) > 0
    THEN noSectionResult(selected[firstWithoutSection(sessions, selected, excluded)])
    ELSE searchResult(
           findBestCombination(
             courseOptions(sessions, selected, excluded, Len(selected)),
             sessions, selected, 0, <<>>, <<>>,
             [best |-> NoBest, leaves |-> <<>>], 1))

(***************************************************************************)
(* The state machine.  cells is the set of sessions the sheets can yield   *)
(* (fixed by Init); allSessions is the list an extraction pass has built   *)
(* so far; a call of a function of lib/clash-detector.ts on that list      *)
(* stores its result and ends the run.                                     *)
(***************************************************************************)
(***************************************************************************)
(* lib/google-sheets.ts: the legend of batch colors.  A header cell is its *)
(* formattedValue (the empty text for none) and the text getBackgroundColor*)
(* gives for it (the empty text for no background).                        *)
(***************************************************************************)
WHITE == "1.001.001.00"

\* String.prototype.trim, for texts whose white space is the space
RECURSIVE trim(_)
trim(s) ==
  IF Len(s) = 0 THEN s
  ELSE IF CharAt(s, 1) = " " THEN trim(SubSeq(s, 2, Len(s)))
  ELSE IF CharAt(s, Len(s)) = " " THEN trim(SubSeq(s, 1, Len(s) - 1))
  ELSE s

\* The test of a header cell in extractBatchColors
registersColor(cell) ==
  /\ cell.formattedValue # ""
  /\ includes(cell.formattedValue, "BS")
  /\ cell.colorCode # ""
  /\ cell.colorCode # WHITE

\* batchColors[cellColor] = value.trim(), or nothing for another cell
writeBatchColor(batchColors, cell) ==
  IF registersColor(cell)
    THEN [inserted |-> Append(batchColors.inserted, cell.colorCode),
          of |-> Assign(batchColors.of, cell.colorCode, trim(cell.formattedValue))]
    ELSE batchColors

\* The batchColors object after the header cells, in scan order: the colors
\* in the order they were written and the batch last written for each
RECURSIVE extractBatchColors(_)
extractBatchColors(headerCells) ==
  IF Len(headerCells) = 0 THEN [inserted |-> <<>>, of |-> <<>>]
  ELSE writeBatchColor(extractBatchColors(SubSeq(headerCells, 1, Len(headerCells) - 1)),
                       headerCells[Len(headerCells)])

(***************************************************************************)
(* lib/time-parser.ts: parseEmbeddedTime, extractDepartmentFromBatch       *)
(***************************************************************************)
IsUpperCase(c) == IsIn(UpperCase, c)
IsSpace(c) == c = " "
endsWith(s, suffix) == Len(s) >= Len(suffix) /\ SubSeq(s, Len(s) - Len(suffix) + 1, Len(s)) = suffix
startsWithAt(s, p, prefix) == p + Len(prefix) - 1 <= Len(s) /\ SubSeq(s, p, p + Len(prefix) - 1) = prefix

\* \b between the positions p - 1 and p of s
IsBoundary(s, p) ==
  (p > 1 /\ p - 1 <= Len(s) /\ IsWordChar(CharAt(s, p - 1))) # (p <= Len(s) /\ IsWordChar(CharAt(s, p)))

\* String.prototype.match / replace with a pattern without the g flag: the
\* leftmost position at which the pattern matches, as [index, length], the
\* index 0 for no match.  lengths[p] is the length of the match of the
\* pattern at position p of the text, 0 for none (no pattern here matches
\* the empty text).
NoMatch == [index |-> 0, length |-> 0]
Match(lengths) ==
  IF \E p \in DOMAIN lengths : lengths[p] > 0
    THEN LET index == CHOOSE p \in DOMAIN lengths : lengths[p] > 0 /\ \A q \in 1..(p - 1) : lengths[q] = 0
         IN  [index |-> index, length |-> lengths[index]]
    ELSE NoMatch

\* replace(pattern, text) for a match m of the pattern in s
Replace(s, m, text) ==
  IF m.index = 0 THEN s
  ELSE SubSeq(s, 1, m.index - 1) \o text \o SubSeq(s, m.index + m.length, Len(s))

\* replace(/\(\)/g, '')
RECURSIVE RemoveEmptyParens(_)
RemoveEmptyParens(s) ==
  IF Len(s) < 2 THEN s
  ELSE IF SubSeq(s, 1, 2) = "()" THEN RemoveEmptyParens(SubSeq(s, 3, Len(s)))
  ELSE CharAt(s, 1) \o RemoveEmptyParens(Tail(s))

\* replace(/\s+/g, ' ')
RECURSIVE CollapseSpaces(_)
CollapseSpaces(s) ==
  IF Len(s) < 2 THEN s
  ELSE IF IsSpace(CharAt(s, 1)) /\ IsSpace(CharAt(s, 2)) THEN CollapseSpaces(Tail(s))
  ELSE CharAt(s, 1) \o CollapseSpaces(Tail(s))

\* if (name.endsWith('-')) name = name.slice(0, -1).trim()
DropTrailingDash(s) == IF endsWith(s, "-") THEN trim(SubSeq(s, 1, Len(s) - 1)) ELSE s

\* /\b(\d{1,2}:\d{2}(?:-\d{1,2}:\d{2})?)\b/ at position p: the range if it
\* ends at a word boundary, else the single time if that does
EmbeddedTimeAt(s, p) ==
  LET first == TimeTokenAt(s, p)
      dash == first # <<>> /\ startsWithAt(s, p + first[3], "-")
      second == IF dash THEN TimeTokenAt(s, p + first[3] + 1) ELSE <<>>
  IN  IF first = <<>> \/ ~IsBoundary(s, p) THEN 0
      ELSE IF second # <<>> /\ IsBoundary(s, p + first[3] + 1 + second[3])
        THEN first[3] + 1 + second[3]
      ELSE IF IsBoundary(s, p + first[3]) THEN first[3]
      ELSE 0

\* courseEntry.match(timePattern)
embeddedTimeMatch(courseEntry) == Match([p \in 1..Len(courseEntry) |-> EmbeddedTimeAt(courseEntry, p)])

\* parseEmbeddedTime(courseEntry).cleanedName
cleanedName(courseEntry) ==
  IF embeddedTimeMatch(courseEntry).index = 0 THEN courseEntry
  ELSE DropTrailingDash(trim(CollapseSpaces(trim(Replace(courseEntry, embeddedTimeMatch(courseEntry), "")))))

\* String.prototype.split('-')
RECURSIVE SplitDash(_, _)
SplitDash(s, part) ==
  IF Len(s) = 0 THEN <<part>>
  ELSE IF CharAt(s, 1) = "-" THEN <<part>> \o SplitDash(Tail(s), "")
  ELSE SplitDash(Tail(s), part \o CharAt(s, 1))

\* The length of the run of uppercase letters of s from position p
RECURSIVE UpperRun(_, _)
UpperRun(s, p) == IF p <= Len(s) /\ IsUpperCase(CharAt(s, p)) THEN 1 + UpperRun(s, p + 1) ELSE 0

\* /\b[A-Z]{2,4}\b/ at position p: a word of two to four uppercase letters
UpperTokenAt(s, p) ==
  IF IsBoundary(s, p) /\ UpperRun(s, p) \in 2..4 /\ IsBoundary(s, p + UpperRun(s, p))
    THEN UpperRun(s, p) ELSE 0

\* batch.match(/\b[A-Z]{2,4}\b/g) || []
RECURSIVE UpperTokens(_, _)
UpperTokens(s, p) ==
  IF p > Len(s) THEN <<>>
  ELSE IF UpperTokenAt(s, p) > 0
    THEN <<SubSeq(s, p, p + UpperTokenAt(s, p) - 1)>> \o UpperTokens(s, p + UpperTokenAt(s, p))
  ELSE UpperTokens(s, p + 1)

NotBS(token) == token # "BS"
extractDepartmentFromBatch(batchName) ==
  IF batchName = "" THEN ""
  ELSE IF includes(batchName, "-") /\ Len(SplitDash(batchName, "")) >= 2 THEN SplitDash(batchName, "")[2]
  ELSE IF Len(SelectSeq(UpperTokens(batchName, 1), NotBS)) > 0 THEN SelectSeq(UpperTokens(batchName, 1), NotBS)[1]
  ELSE ""

(***************************************************************************)
(* lib/course-extractor.ts: parseCourseEntry.  The department is put into  *)
(* the patterns as it is; the model reads it as plain text, which it is    *)
(* for a department of letters.                                            *)
(***************************************************************************)
\* String.prototype.charAt: the empty text outside the string
charAt(s, i) == IF i \in 1..Len(s) THEN CharAt(s, i) ELSE ""

RECURSIVE SpaceRun(_, _)
SpaceRun(s, p) == IF IsSpace(charAt(s, p)) THEN 1 + SpaceRun(s, p + 1) ELSE 0
RECURSIVE DigitRun(_, _)
DigitRun(s, p) == IF IsDigit(charAt(s, p)) THEN 1 + DigitRun(s, p + 1) ELSE 0

\* new RegExp('\\(' + department + '-([A-Z]),\\s*G-\\d+\\)') at position p
GroupWithSectionAt(s, p, department) ==
  LET letter == p + Len(department) + 2
      group == letter + 2 + SpaceRun(s, letter + 2)
      close == group + 2 + DigitRun(s, group + 2)
  IN  IF /\ startsWithAt(s, p, "(" \o department \o "-")
         /\ IsUpperCase(charAt(s, letter))
         /\ charAt(s, letter + 1) = ","
         /\ startsWithAt(s, group, "G-")
         /\ DigitRun(s, group + 2) > 0
         /\ charAt(s, close) = ")"
        THEN close - p + 1 ELSE 0

\* new RegExp(department + '-[A-Z],') at position p
DepartmentLetterCommaAt(s, p, department) ==
  IF /\ startsWithAt(s, p, department \o "-")
     /\ IsUpperCase(charAt(s, p + Len(department) + 1))
     /\ charAt(s, p + Len(department) + 2) = ","
    THEN Len(department) + 3 ELSE 0

\* new RegExp('\\(' + department + '-([A-Z])\\)') at position p
DepartmentSectionAt(s, p, department) ==
  IF /\ startsWithAt(s, p, "(" \o department \o "-")
     /\ IsUpperCase(charAt(s, p + Len(department) + 2))
     /\ charAt(s, p + Len(department) + 3) = ")"
    THEN Len(department) + 4 ELSE 0

\* /-([A-Z])\b/ at position p
DashLetterAt(s, p) ==
  IF charAt(s, p) = "-" /\ IsUpperCase(charAt(s, p + 1)) /\ IsBoundary(s, p + 2) THEN 2 ELSE 0

\* /\(([A-Z])\)/ at position p
ParenLetterAt(s, p) ==
  IF charAt(s, p) = "(" /\ IsUpperCase(charAt(s, p + 1)) /\ charAt(s, p + 2) = ")" THEN 3 ELSE 0

\* /\s([A-Z])\s/ at position p
SpacedLetterAt(s, p) ==
  IF IsSpace(charAt(s, p)) /\ IsUpperCase(charAt(s, p + 1)) /\ IsSpace(charAt(s, p + 2)) THEN 3 ELSE 0

\* The matches of the five patterns in a course entry
groupSectionMatch(courseEntry, department) ==
  Match([p \in 1..Len(courseEntry) |-> GroupWithSectionAt(courseEntry, p, department)])
departmentLetterCommaMatch(courseEntry, department) ==
  Match([p \in 1..Len(courseEntry) |-> DepartmentLetterCommaAt(courseEntry, p, department)])
departmentSectionMatch(courseEntry, department) ==
  Match([p \in 1..Len(courseEntry) |-> DepartmentSectionAt(courseEntry, p, department)])
dashLetterMatch(courseEntry) == Match([p \in 1..Len(courseEntry) |-> DashLetterAt(courseEntry, p)])
parenLetterMatch(courseEntry) == Match([p \in 1..Len(courseEntry) |-> ParenLetterAt(courseEntry, p)])
spacedLetterMatch(courseEntry) == Match([p \in 1..Len(courseEntry) |-> SpacedLetterAt(courseEntry, p)])

\* section = match[1]; courseName = courseEntry.replace(pattern, '').trim(),
\* for a match m whose letter is the character at offset from its index
sectionOf(courseEntry, m, offset) ==
  [section |-> charAt(courseEntry, m.index + offset), courseName |-> trim(Replace(courseEntry, m, ""))]

\* The loop over sectionPatterns: the first pattern that matches gives the
\* section; without a match the section is empty and the name is the entry
standardSection(courseEntry, department) ==
  IF departmentSectionMatch(courseEntry, department).index > 0
    THEN sectionOf(courseEntry, departmentSectionMatch(courseEntry, department), Len(department) + 2)
  ELSE IF dashLetterMatch(courseEntry).index > 0
    THEN sectionOf(courseEntry, dashLetterMatch(courseEntry), 1)
  ELSE IF parenLetterMatch(courseEntry).index > 0
    THEN sectionOf(courseEntry, parenLetterMatch(courseEntry), 1)
  ELSE IF spacedLetterMatch(courseEntry).index > 0
    THEN sectionOf(courseEntry, spacedLetterMatch(courseEntry), 1)
  ELSE [section |-> "", courseName |-> courseEntry]

\* The group pattern: the section is its letter, and the name keeps the
\* group with the letter taken out of it
groupSection(courseEntry, department) ==
  [section |-> charAt(courseEntry, groupSectionMatch(courseEntry, department).index + Len(department) + 2),
   courseName |-> Replace(courseEntry, departmentLetterCommaMatch(courseEntry, department), department \o ",")]

\* A parse that tries the group pattern after the pattern (DEPT-X)
sectionAndNameGroupSecond(courseEntry, department) ==
  IF departmentSectionMatch(courseEntry, department).index > 0
    THEN standardSection(courseEntry, department)
  ELSE IF groupSectionMatch(courseEntry, department).index > 0
    THEN groupSection(courseEntry, department)
  ELSE standardSection(courseEntry, department)

\* if (groupSectionMatch) ... else the standard section patterns
sectionAndName(courseEntry, department) ==
  IF groupSectionMatch(courseEntry, department).index > 0
    THEN groupSection(courseEntry, department)
    ELSE standardSection(courseEntry, department)

\* "Clean up course name" and the removal of an embedded time
cleanCourseName(courseName) == cleanedName(DropTrailingDash(trim(RemoveEmptyParens(courseName))))

\* parseCourseEntry for an entry that is not empty
parseCourseEntry(courseEntry, batchName) ==
  [name |-> cleanCourseName(sectionAndName(courseEntry, extractDepartmentFromBatch(batchName)).courseName),
   department |-> extractDepartmentFromBatch(batchName),
   section |-> sectionAndName(courseEntry, extractDepartmentFromBatch(batchName)).section,
   batch |-> batchName,
   fullEntry |-> courseEntry]

(***************************************************************************)
(* lib/course-extractor.ts: extractAllCourses.  A data cell is its         *)
(* formattedValue, its color and the day of its sheet; the cells come in   *)
(* scan order: sheet, then row, then column.                               *)
(***************************************************************************)
\* The order of the characters in String.prototype.localeCompare at the
\* first level: white space, punctuation, symbols, digits, letters
Collation == <<" ", "_", "-", ",", ";", ":", "!", "?", ".", "'", "(", ")", "[", "]",
               "{", "}", "@", "*", "/", "&", "#", "%", "^", "+", "<", "=", ">", "|",
               "~", "$", "0", "1", "2", "3", "4", "5", "6", "7", "8", "9", "a", "b",
               "c", "d", "e", "f", "g", "h", "i", "j", "k", "l", "m", "n", "o", "p",
               "q", "r", "s", "t", "u", "v", "w", "x", "y", "z">>
PrimaryRank(c) == IndexIn(Collation, ToLowerChar(c))

\* The comparison of the letters without their case, then of their case
\* (the small letter first), each from left to right
RECURSIVE primaryCompare(_, _)
primaryCompare(a, b) ==
  IF Len(a) = 0 /\ Len(b) = 0 THEN 0
  ELSE IF Len(a) = 0 THEN -1
  ELSE IF Len(b) = 0 THEN 1
  ELSE IF PrimaryRank(CharAt(a, 1)) < PrimaryRank(CharAt(b, 1)) THEN -1
  ELSE IF PrimaryRank(CharAt(a, 1)) > PrimaryRank(CharAt(b, 1)) THEN 1
  ELSE primaryCompare(Tail(a), Tail(b))

RECURSIVE caseCompare(_, _)
caseCompare(a, b) ==
  IF Len(a) = 0 \/ Len(b) = 0 THEN 0
  ELSE IF CharAt(a, 1) = CharAt(b, 1) THEN caseCompare(Tail(a), Tail(b))
  ELSE IF IsUpperCase(CharAt(b, 1)) THEN -1 ELSE 1

localeCompare(a, b) == IF primaryCompare(a, b) # 0 THEN primaryCompare(a, b) ELSE caseCompare(a, b)

\* The comparator of the sort of the catalog: name, department, section
compareCourses(a, b) ==
  IF localeCompare(a.name, b.name) # 0 THEN localeCompare(a.name, b.name)
  ELSE IF localeCompare(a.department, b.department) # 0 THEN localeCompare(a.department, b.department)
  ELSE localeCompare(a.section, b.section)

\* Array.prototype.sort(compareCourses): stable
RECURSIVE sortCourses(_)
sortCourses(list) ==
  IF Len(list) = 0 THEN <<>>
  ELSE LET least == CHOOSE i \in 1..Len(list) :
                      /\ \A j \in 1..Len(list) : compareCourses(list[i], list[j]) <= 0
                      /\ \A j \in 1..(i - 1) : compareCourses(list[j], list[i]) # 0
           rest == [k \in 1..(Len(list) - 1) |-> IF k < least THEN list[k] ELSE list[k + 1]]
       IN  <<list[least]>> \o sortCourses(rest)

\* const courseKey = name_department_section_batch
courseKey(courseInfo) ==
  courseInfo.name \o "_" \o courseInfo.department \o "_" \o courseInfo.section \o "_" \o courseInfo.batch

\* courses.push({...courseInfo, id: courseKey, colorCode: cellColor, day: sheetName})
Course(courseInfo, cell) ==
  [name |-> courseInfo.name, department |-> courseInfo.department, section |-> courseInfo.section,
   batch |-> courseInfo.batch, fullEntry |-> courseInfo.fullEntry,
   id |-> courseKey(courseInfo), colorCode |-> cell.colorCode, day |-> cell.day]

\* if (cellColor && batchColors[cellColor]) and if (courseEntry)
isCourseCell(batchColors, cell) ==
  /\ cell.colorCode # ""
  /\ cell.colorCode \in DOMAIN batchColors.of
  /\ batchColors.of[cell.colorCode] # ""
  /\ cell.formattedValue # ""

\* if (!seenKeys.has(courseKey)) { seenKeys.add(courseKey); courses.push(...) }
pushUnlessSeen(scanned, courseInfo, cell) ==
  IF courseKey(courseInfo) \in scanned.seenKeys THEN scanned
  ELSE [courses |-> Append(scanned.courses, Course(courseInfo, cell)),
        seenKeys |-> scanned.seenKeys \cup {courseKey(courseInfo)}]

\* The callback of rowValues.forEach for one cell
scanCell(scanned, batchColors, cell) ==
  IF isCourseCell(batchColors, cell)
    THEN pushUnlessSeen(scanned, parseCourseEntry(cell.formattedValue, batchColors.of[cell.colorCode]), cell)
    ELSE scanned

\* courses and seenKeys after the scan of the data cells
RECURSIVE scanCourses(_, _)
scanCourses(batchColors, dataCells) ==
  IF Len(dataCells) = 0 THEN [courses |-> <<>>, seenKeys |-> {}]
  ELSE scanCell(scanCourses(batchColors, SubSeq(dataCells, 1, Len(dataCells) - 1)),
                batchColors, dataCells[Len(dataCells)])

\* .filter(c => !c.name.toLowerCase().includes('cancelled'))
notCancelled(c) == ~includes(toLowerCase(c.name), "cancelled")

extractAllCourses(headerCells, dataCells) ==
  sortCourses(SelectSeq(scanCourses(extractBatchColors(headerCells), dataCells).courses, notCancelled))

\* null and undefined of the source
Null == "null"
Undefined == "undefined"

NoResult ==
  [success |-> FALSE, schedule |-> <<>>, assignments |-> <<>>, clashes |-> <<>>,
   message |-> [kind |-> "", courseName |-> "", minimumClashes |-> 0, gapScore |-> 0],
   leaves |-> <<>>]

InitWith(sheetCells) ==
  /\ cells = sheetCells
  /\ allSessions = <<>>
  /\ pc = "extract"
  /\ clashes = <<>>
  /\ validSessions = <<>>
  /\ selectedCourseNames = <<>>
  /\ excludedAssignments = <<>>
  /\ optimal = NoResult
  /\ responses = <<>>
  /\ legend = <<>>
  /\ batch = ""
  /\ grid = {}
  /\ entries = <<>>
  /\ catalog = <<>>
  /\ cachedSpreadsheet = Null
  /\ cacheTimestamp = 0
  /\ now = 0
  /\ pending = {}
  /\ returned = <<>>

\* One matched cell of getAllSessionsForBatch / getTimetableForCourses: the
\* session is pushed unless a similar one is already in the list.
Extract(max) ==
  /\ pc = "extract"
  /\ Len(allSessions) < max
  /\ \E session \in cells :
       /\ ~\E i \in 1..Len(allSessions) : isSimilarSession(allSessions[i], session)
       /\ allSessions' = Append(allSessions, session)
  /\ UNCHANGED <<cells, pc, clashes, validSessions, selectedCourseNames,
                 excludedAssignments, optimal, responses, sheetVars, cacheVars>>

CallDetectClashes ==
  /\ pc = "extract"
  /\ clashes' = detectClashes(allSessions)
  /\ pc' = "detected"
  /\ UNCHANGED <<cells, allSessions, validSessions, selectedCourseNames,
                 excludedAssignments, optimal, responses, sheetVars, cacheVars>>

CallFilterValidSessions ==
  /\ pc = "extract"
  /\ validSessions' = filterValidSessions(allSessions)
  /\ pc' = "filtered"
  /\ UNCHANGED <<cells, allSessions, clashes, selectedCourseNames,
                 excludedAssignments, optimal, responses, sheetVars, cacheVars>>

\* The requests.  The page toggles a name in or out of selectedCourseNames,
\* so a name is selected at most once; it keeps exclusions for selected
\* courses only; the route rejects an empty selection and an empty session
\* list.
CourseNames == {c.courseName : c \in cells}
Selections ==
  {<<a>> : a \in CourseNames}
    \cup {pair \in CourseNames \X CourseNames : pair[1] # pair[2]}
ExcludedArrays == {<<"A">>, <<"A", "B">>}
Exclusions(names) ==
  {<<>>} \cup {(names[i] :> secs) : i \in 1..Len(names), secs \in ExcludedArrays}

Range3(seq) == {seq[i] : i \in 1..Len(seq)}

\* The orders in which a request can name the three courses of the sheet
ThreeCourses == <<"DS", "OOP", "PF">>
ThreeCourseSelections ==
  {names \in [1..3 -> Range3(ThreeCourses)] : \A i, j \in 1..3 : names[i] = names[j] => i = j}

\* A search that starts from the best candidate of the request before
CallCarryingBest(names, excluded) ==
  LET fresh == findOptimalSchedule(allSessions, names, excluded)
      score(r) == [clashCount |-> Len(r.clashes), gapScore |-> r.message.gapScore]
      result == IF Len(responses) > 0 /\ ~isBetterSchedule(score(fresh), score(optimal))
                  THEN optimal ELSE fresh
  IN  /\ selectedCourseNames' = names
      /\ excludedAssignments' = excluded
      /\ optimal' = result
      /\ responses' = Append(responses, [selectedCourseNames |-> names,
                                         excludedAssignments |-> excluded,
                                         result |-> result])

\* The body of the route: the call of findOptimalSchedule with the sessions
\* of the batch and the request's names and exclusions; responses is the
\* list of the requests answered so far with their results.
CallFindOptimalSchedule(names, excluded) ==
  /\ selectedCourseNames' = names
  /\ excludedAssignments' = excluded
  /\ optimal' = findOptimalSchedule(allSessions, names, excluded)
  /\ responses' = Append(responses, [selectedCourseNames |-> names,
                                     excludedAssignments |-> excluded,
                                     result |-> optimal'])

\* POST /api/optimal-schedule
PostOptimalSchedule ==
  /\ pc = "extract"
  /\ Len(allSessions) > 0
  /\ \E names \in Selections :
     \E excluded \in Exclusions(names) : CallFindOptimalSchedule(names, excluded)
  /\ pc' = "searched"
  /\ UNCHANGED <<cells, allSessions, clashes, validSessions, sheetVars, cacheVars>>

\* POST /api/optimal-schedule for all three courses of the sheet, in any
\* order, without exclusions
PostOptimalScheduleOfThree ==
  /\ pc = "extract"
  /\ \E names \in ThreeCourseSelections : CallFindOptimalSchedule(names, <<>>)
  /\ pc' = "searched"
  /\ UNCHANGED <<cells, allSessions, clashes, validSessions, sheetVars, cacheVars>>

\* A lookup that falls back to the first color of the legend
targetColorOrFirst(batchColors, batchName) ==
  LET keys == ObjectKeys(batchColors.inserted)
      ofBatch(color) == batchColors.of[color] = batchName
      found == SelectSeq(keys, ofBatch)
  IN  IF Len(found) > 0 THEN found[1]
      ELSE IF Len(keys) > 0 THEN keys[1] ELSE Undefined

\* Object.entries(batchColors).find(([, b]) => b === batch)?.[0]
targetColor(batchColors, batchName) ==
  LET keys == ObjectKeys(batchColors.inserted)
      ofBatch(color) == batchColors.of[color] = batchName
      found == SelectSeq(keys, ofBatch)
  IN  IF Len(found) > 0 THEN found[1] ELSE Undefined

\* The sessions the scan of the data rows can build for a color; a cell of
\* grid is a data cell: its color and the session built from it
sessionsOfColor(color) == {cell.session : cell \in {c \in grid : c.colorCode = color}}

\* getAllSessionsForBatch up to the scan of the sheets: without a color for
\* the batch it returns the empty list, else the scan begins
GetAllSessionsForBatch ==
  /\ pc = "request"
  /\ IF targetColor(extractBatchColors(legend), batch) \in {Undefined, ""}
       THEN /\ pc' = "returned"
            /\ cells' = {}
       ELSE /\ pc' = "extract"
            /\ cells' = sessionsOfColor(targetColor(extractBatchColors(legend), batch))
  /\ UNCHANGED <<allSessions, clashes, validSessions, selectedCourseNames,
                 excludedAssignments, optimal, responses, sheetVars, cacheVars>>

(***************************************************************************)
(* lib/timetable-extractor.ts: the scan of getAllSessionsForBatch.  A data *)
(* cell is its formattedValue, its color, the day of its sheet, whether    *)
(* its row is at or after the lab row (isLab), and the formatted values at *)
(* its column of the lab time row (labTime) and of the time row (rowTime), *)
(* the empty text for a cell without a value.                              *)
(***************************************************************************)
\* /-([A-Z])\)/, /-([A-Z])\s/ and /-([A-Z]),/ at position p
DashLetterParenAt(s, p) ==
  IF charAt(s, p) = "-" /\ IsUpperCase(charAt(s, p + 1)) /\ charAt(s, p + 2) = ")" THEN 3 ELSE 0
DashLetterSpaceAt(s, p) ==
  IF charAt(s, p) = "-" /\ IsUpperCase(charAt(s, p + 1)) /\ IsSpace(charAt(s, p + 2)) THEN 3 ELSE 0
DashLetterCommaAt(s, p) ==
  IF charAt(s, p) = "-" /\ IsUpperCase(charAt(s, p + 1)) /\ charAt(s, p + 2) = "," THEN 3 ELSE 0

\* The list sectionPatterns of the scan: the match of its k-th pattern in s
\* and the offset of the letter in the match
sectionPatternMatch(k, s, department) ==
  Match([p \in 1..Len(s) |->
           CASE k = 1 -> DepartmentSectionAt(s, p, department)
             [] k = 2 -> DashLetterParenAt(s, p)
             [] k = 3 -> DashLetterSpaceAt(s, p)
             [] k = 4 -> DashLetterCommaAt(s, p)
             [] OTHER -> ParenLetterAt(s, p)])
sectionLetterOffset(k, department) == IF k = 1 THEN Len(department) + 2 ELSE 1

\* for (const pattern of sectionPatterns) { ... section = match[1]; break }
RECURSIVE sectionFromPatterns(_, _, _)
sectionFromPatterns(classEntry, department, k) ==
  IF k > 5 THEN ""
  ELSE IF sectionPatternMatch(k, classEntry, department).index > 0
    THEN charAt(classEntry, sectionPatternMatch(k, classEntry, department).index + sectionLetterOffset(k, department))
  ELSE sectionFromPatterns(classEntry, department, k + 1)

\* sectionPatterns.forEach(pattern => courseName = courseName.replace(pattern, '').trim())
RECURSIVE removeSectionPatterns(_, _, _)
removeSectionPatterns(courseName, department, k) ==
  IF k > 5 THEN courseName
  ELSE removeSectionPatterns(trim(Replace(courseName, sectionPatternMatch(k, courseName, department), "")),
                             department, k + 1)

\* parseEmbeddedTime(classEntry).timeSlot for an entry with a time
embeddedTime(classEntry) ==
  SubSeq(classEntry, embeddedTimeMatch(classEntry).index,
         embeddedTimeMatch(classEntry).index + embeddedTimeMatch(classEntry).length - 1)

\* A resolution that reads the time row for every row
resolveTimeSlotFromTimeRow(classEntry, isLab, labTime, rowTime) ==
  IF embeddedTimeMatch(classEntry).index > 0 THEN embeddedTime(classEntry)
  ELSE (IF rowTime = "" THEN "Unknown" ELSE rowTime)

\* "Get time slot": the embedded time, else the lab time row for a lab row,
\* else the time row; getFormattedValue(...) || 'Unknown'
resolveTimeSlot(classEntry, isLab, labTime, rowTime) ==
  IF embeddedTimeMatch(classEntry).index > 0 THEN embeddedTime(classEntry)
  ELSE IF isLab THEN (IF labTime = "" THEN "Unknown" ELSE labTime)
  ELSE (IF rowTime = "" THEN "Unknown" ELSE rowTime)

\* "Clean course name"
batchCourseName(classEntry, department) ==
  DropTrailingDash(trim(RemoveEmptyParens(removeSectionPatterns(cleanedName(classEntry), department, 1))))

\* The session built for a cell of the target color with a section
batchSession(cell, department) ==
  Session(cell.day, resolveTimeSlot(cell.formattedValue, cell.isLab, cell.labTime, cell.rowTime),
          batchCourseName(cell.formattedValue, department),
          sectionFromPatterns(cell.formattedValue, department, 1), cell.isLab)

\* The callback of rowValues.forEach for one cell
scanBatchCell(sessions, color, department, cell) ==
  IF cell.colorCode # color \/ cell.formattedValue = "" THEN sessions
  ELSE IF sectionFromPatterns(cell.formattedValue, department, 1) = "" THEN sessions
  ELSE IF \E i \in 1..Len(sessions) : isSimilarSession(sessions[i], batchSession(cell, department))
    THEN sessions
  ELSE Append(sessions, batchSession(cell, department))

\* sessions after the scan of the data cells
RECURSIVE scanBatchCells(_, _, _)
scanBatchCells(color, department, dataCells) ==
  IF Len(dataCells) = 0 THEN <<>>
  ELSE scanBatchCell(scanBatchCells(color, department, SubSeq(dataCells, 1, Len(dataCells) - 1)),
                     color, department, dataCells[Len(dataCells)])

getAllSessionsForBatch(headerCells, dataCells, batchName) ==
  IF targetColor(extractBatchColors(headerCells), batchName) \in {Undefined, ""} THEN <<>>
  ELSE scanBatchCells(targetColor(extractBatchColors(headerCells), batchName),
                      extractDepartmentFromBatch(batchName), dataCells)

\* POST /api/optimal-schedule up to the search: getAllSessionsForBatch over
\* the sheets, for a batch picked from the catalog
ScanAllSessionsForBatch ==
  /\ pc = "returned"
  /\ \E k \in 1..Len(catalog) :
       /\ batch' = catalog[k].batch
       /\ allSessions' = getAllSessionsForBatch(legend, entries, catalog[k].batch)
  /\ pc' = "scanned"
  /\ UNCHANGED <<legend, grid, entries, catalog>>
  /\ UNCHANGED <<cells, clashes, validSessions, selectedCourseNames,
                 excludedAssignments, optimal, responses, cacheVars>>

(***************************************************************************)
(* lib/google-sheets.ts: fetchSpreadsheet and its module-level cache.  The *)
(* function is async: the part up to the await of spreadsheets.get runs in *)
(* one step, the part after it in a later step, and other calls may run in *)
(* between.  now is Date.now() in milliseconds; pending holds the calls    *)
(* that wait for the remote answer, each with the now it read on entry;    *)
(* returned is the list of the calls that ended, in the order they ended.  *)
(***************************************************************************)
CACHE_DURATION == 30 * 60 * 1000

\* The data of the spreadsheet the remote get can answer with, and the
\* values of the clock: the multiples of the cache duration, a millisecond
\* before and a millisecond after each
Responses == {"sheets of week 1", "sheets of week 2"}
Instants == {k * CACHE_DURATION + e : k \in 0..MaxPeriods, e \in {-1, 0, 1}} \cap Nat

\* A cache that is valid up to and including the age of CACHE_DURATION
cacheValidClosed(cached, timestamp, time) == cached # Null /\ (time - timestamp) <= CACHE_DURATION

\* cachedSpreadsheet && (now - cacheTimestamp) < CACHE_DURATION
cacheValid(cached, timestamp, time) == cached # Null /\ (time - timestamp) < CACHE_DURATION

\* The number of calls of fetchSpreadsheet so far
Started == Len(returned) + Cardinality(pending)

\* What a call saw on entry
Entry == [call |-> Started + 1, start |-> now, cached |-> cachedSpreadsheet, stamp |-> cacheTimestamp]

\* The end of a call: how it ended, with what value, and when
Return(entry, via, value) ==
  [call |-> entry.call, start |-> entry.start, cached |-> entry.cached, stamp |-> entry.stamp,
   via |-> via, value |-> value, at |-> now]

\* fetchSpreadsheet from its entry to the return of the cached document or
\* to the await of the remote get
FetchSpreadsheet ==
  /\ Started < MaxFetchCalls
  /\ IF cacheValid(cachedSpreadsheet, cacheTimestamp, now)
       THEN /\ returned' = Append(returned, Return(Entry, "cache", cachedSpreadsheet))
            /\ UNCHANGED pending
       ELSE /\ pending' = pending \cup {Entry}
            /\ UNCHANGED returned
  /\ UNCHANGED <<cachedSpreadsheet, cacheTimestamp, now>>
  /\ UNCHANGED <<cells, allSessions, pc, clashes, validSessions, selectedCourseNames,
                 excludedAssignments, optimal, responses, sheetVars>>

\* The remote get of a waiting call answers with data: the call stores the
\* data and the now it read on entry, and returns the data
ResolveGet ==
  /\ \E entry \in pending : \E data \in Responses :
        /\ cachedSpreadsheet' = data
        /\ cacheTimestamp' = entry.start
        /\ returned' = Append(returned, Return(entry, "fetch", data))
        /\ pending' = pending \ {entry}
  /\ UNCHANGED now
  /\ UNCHANGED <<cells, allSessions, pc, clashes, validSessions, selectedCourseNames,
                 excludedAssignments, optimal, responses, sheetVars>>

\* A failure that drops the cached document
RejectGetClearingCache ==
  /\ \E entry \in pending :
        /\ returned' = Append(returned, Return(entry, "error", Null))
        /\ pending' = pending \ {entry}
  /\ cachedSpreadsheet' = Null
  /\ cacheTimestamp' = 0
  /\ UNCHANGED now
  /\ UNCHANGED <<cells, allSessions, pc, clashes, validSessions, selectedCourseNames,
                 excludedAssignments, optimal, responses, sheetVars>>

\* The remote get of a waiting call fails: the call logs and rethrows
RejectGet ==
  /\ \E entry \in pending :
        /\ returned' = Append(returned, Return(entry, "error", Null))
        /\ pending' = pending \ {entry}
  /\ UNCHANGED <<cachedSpreadsheet, cacheTimestamp, now>>
  /\ UNCHANGED <<cells, allSessions, pc, clashes, validSessions, selectedCourseNames,
                 excludedAssignments, optimal, responses, sheetVars>>

\* Time passes
Tick ==
  /\ \E later \in Instants :
        /\ later > now
        /\ now' = later
  /\ UNCHANGED <<cachedSpreadsheet, cacheTimestamp, pending, returned>>
  /\ UNCHANGED <<cells, allSessions, pc, clashes, validSessions, selectedCourseNames,
                 excludedAssignments, optimal, responses, sheetVars>>

\* GET /api/courses: extractAllCourses over the sheets
ExtractAllCourses ==
  /\ pc = "request"
  /\ catalog' = extractAllCourses(legend, entries)
  /\ pc' = "returned"
  /\ UNCHANGED <<legend, batch, grid, entries>>
  /\ UNCHANGED <<cells, allSessions, clashes, validSessions, selectedCourseNames,
                 excludedAssignments, optimal, responses, cacheVars>>

\* A later POST /api/optimal-schedule for the same batch
PostOptimalScheduleAgain ==
  /\ pc = "searched"
  /\ Len(responses) < MaxCalls
  /\ \E names \in Selections :
     \E excluded \in Exclusions(names) : CallFindOptimalSchedule(names, excluded)
  /\ UNCHANGED <<cells, allSessions, pc, clashes, validSessions, sheetVars, cacheVars>>

\* The cells of the models: course, section, day and time text of each
CellsOf(courses, sections, days, timeSlots, labRows) ==
  {Session(d, t, c, s, l) :
     c \in courses, s \in sections, d \in days, t \in timeSlots, l \in labRows}

\* The first n sheets, one per day
Days(n) == {TIMETABLE_SHEETS[i] : i \in 1..n}

DetectCells ==
  CellsOf({"DS"}, {"A", "B"}, Days(2),
          {"9:00-10:00", "10:00-11:00", "9:30-10:30", "Unknown", "TBA"}, {FALSE})
    \cup CellsOf({"OOP"}, {"A"}, Days(2),
                 {"9:00-10:00", "10:00-11:00", "9:30-10:30", "Unknown", "TBA"}, {FALSE})

\* Course names whose sorted, joined keys can coincide
KeyCells ==
  CellsOf({"A", "A_B", "B_C", "C"}, {"A"}, Days(1),
          {"9:00-10:00", "1:00-2:00"}, {FALSE})

FilterCells ==
  CellsOf({"DS"}, {"A"}, Days(3),
          {"9:00-10:00", "1:00-2:00"}, {FALSE, TRUE})
    \cup CellsOf({"OOP Lab"}, {"A"}, Days(2),
                 {"9:00-10:00", "1:00-2:00"}, {TRUE})
    \cup CellsOf({"7"}, {"A"}, Days(1), {"9:00-10:00"}, {FALSE, TRUE})

SearchCells ==
  CellsOf({"DS"}, {"A", "B"}, Days(1),
          {"9:00-10:00", "10:00-11:00", "12:00-1:00"}, {FALSE})
    \cup CellsOf({"OOP"}, {"A", "B"}, Days(1), {"10:00-11:00", "12:00-1:00"}, {FALSE})

InitDetect == InitWith(DetectCells)
NextDetect == Extract(MaxDetectSessions) \/ CallDetectClashes
SpecDetect == InitDetect /\ [][NextDetect]_vars

InitKeys == InitWith(KeyCells)
NextKeys == Extract(MaxKeySessions) \/ CallDetectClashes
SpecKeys == InitKeys /\ [][NextKeys]_vars

InitFilter == InitWith(FilterCells)
NextFilter == Extract(MaxFilterSessions) \/ CallFilterValidSessions
SpecFilter == InitFilter /\ [][NextFilter]_vars

\* Two courses of one section each
RepeatCells ==
  CellsOf({"DS"}, {"A"}, Days(1), {"10:00-11:00"}, {FALSE})
    \cup CellsOf({"OOP"}, {"A"}, Days(1), {"10:00-11:00", "12:00-1:00"}, {FALSE})

\* Time texts as the time rows of the sheets hold them: the hours of a
\* 12-hour clock, as a single time or a range, without and with AM/PM
\* markers, and texts without a time
Hours == <<"1", "2", "3", "4", "5", "6", "7", "8", "9", "10", "11", "12">>
ClockText(hour, minuteText) == Hours[hour] \o ":" \o minuteText
RangeText(hour1, hour2, minuteText2) ==
  ClockText(hour1, "00") \o "-" \o ClockText(hour2, minuteText2)
Markers == {"", " AM", " pm", "PM"}
MarkedText(hour1, marker1, hour2, marker2) ==
  ClockText(hour1, "00") \o marker1 \o " - " \o ClockText(hour2, "00") \o marker2
TimeTexts ==
  {ClockText(h, "00") : h \in 1..12}
    \cup {RangeText(h1, h2, "00") : h1 \in 1..12, h2 \in 1..12}
    \cup {RangeText(h, h, "30") : h \in 1..12}
    \cup {MarkedText(h1, x, h2, y) : h1 \in {9, 12}, x \in Markers, h2 \in {1, 12}, y \in Markers}
    \cup {"Unknown", "TBA"}

TimeCells == CellsOf({"DS"}, {"A"}, Days(1), TimeTexts, {FALSE})

\* Time texts of every kind: ranges that overlap, touch or lie apart, a
\* single time, marked times, a range that ends before it starts, and
\* texts without a time
OverlapTexts ==
  {"9:00-10:00", "9:30-10:30", "10:00-11:00", "12:00-1:00", "7:00-8:00", "9:00",
   "9:00 AM - 10:00 AM", "9:00 PM - 10:00 PM", "11:30 PM - 12:30 AM",
   "Unknown", "TBA"}
OverlapCells == CellsOf({"DS", "OOP"}, {"A"}, Days(1), OverlapTexts, {FALSE})

InitSearch == InitWith(SearchCells)
NextSearch == Extract(MaxSearchSessions) \/ PostOptimalSchedule
SpecSearch == InitSearch /\ [][NextSearch]_vars

InitTimes == InitWith(TimeCells)
NextTimes == Extract(MaxTimeSessions) \/ CallDetectClashes
SpecTimes == InitTimes /\ [][NextTimes]_vars

\* Header cells: batch names with and without blanks around them, a text
\* that names no batch; two colors, white and no background
HeaderCells ==
  {[formattedValue |-> v, colorCode |-> c] :
     v \in {"BS-CS-1", " BS-CS-1 ", "BS-SE-1", "Room"},
     c \in {"0.500.500.50", "0.200.200.20", WHITE, ""}}
Legends == UNION {[1..n -> HeaderCells] : n \in 0..MaxLegendCells}
Batches == {"BS-CS-1", "BS-SE-1"}
BatchGrid ==
  {[colorCode |-> c, session |-> s] :
     c \in {"0.500.500.50", "0.200.200.20", ""},
     s \in CellsOf({"DS", "OOP"}, {"A"}, Days(1), {"9:00-10:00"}, {FALSE})}

InitBatch ==
  /\ cells = {}
  /\ allSessions = <<>>
  /\ pc = "request"
  /\ clashes = <<>>
  /\ validSessions = <<>>
  /\ selectedCourseNames = <<>>
  /\ excludedAssignments = <<>>
  /\ optimal = NoResult
  /\ responses = <<>>
  /\ legend \in Legends
  /\ batch \in Batches
  /\ grid = BatchGrid
  /\ entries = <<>>
  /\ catalog = <<>>
  /\ cachedSpreadsheet = Null
  /\ cacheTimestamp = 0
  /\ now = 0
  /\ pending = {}
  /\ returned = <<>>
NextBatch == GetAllSessionsForBatch \/ Extract(MaxBatchSessions)
SpecBatch == InitBatch /\ [][NextBatch]_vars

\* The legends of the catalog: two batches of two departments, and two
\* batches of one department of which one has underscores in its name
CatalogLegends ==
  {<<[formattedValue |-> "BS-CS-1", colorCode |-> "0.500.500.50"],
     [formattedValue |-> "BS-SE-1", colorCode |-> "0.200.200.20"]>>,
   <<[formattedValue |-> "CS_A_BS-CS", colorCode |-> "0.500.500.50"],
     [formattedValue |-> "BS-CS", colorCode |-> "0.200.200.20"]>>}

\* Course entries: each section pattern alone, entries that several
\* patterns match, an entry with a time, a cancelled course, a name with
\* underscores
CatalogTexts ==
  {"DS (CS-A)", "DS (CS-B)", "Prog Lab (CS-A, G-1)", "Prog Lab (CS-A) (CS-B, G-1)",
   "OOP-A (CS-B)", "OOP-A (B)", "OOP (B) C x", "PF C Lab", "Maths",
   "DS (CS-A) 09:00-10:45", "DS Cancelled (CS-A)", "DS_CS_B (CS-A)"}
CatalogCells ==
  {[formattedValue |-> v, colorCode |-> c, day |-> d] :
     v \in CatalogTexts, c \in {"0.500.500.50", "0.200.200.20"}, d \in {"Monday", "Tuesday"}}
CatalogGrids == UNION {[1..n -> CatalogCells] : n \in 0..MaxCatalogCells}

InitCatalog ==
  /\ cells = {}
  /\ allSessions = <<>>
  /\ pc = "request"
  /\ clashes = <<>>
  /\ validSessions = <<>>
  /\ selectedCourseNames = <<>>
  /\ excludedAssignments = <<>>
  /\ optimal = NoResult
  /\ responses = <<>>
  /\ legend \in CatalogLegends
  /\ batch = ""
  /\ grid = {}
  /\ entries \in CatalogGrids
  /\ catalog = <<>>
  /\ cachedSpreadsheet = Null
  /\ cacheTimestamp = 0
  /\ now = 0
  /\ pending = {}
  /\ returned = <<>>
NextCatalog == ExtractAllCourses
SpecCatalog == InitCatalog /\ [][NextCatalog]_vars

\* The server after its start: nothing cached
InitCache == InitWith({})
NextCache == FetchSpreadsheet \/ ResolveGet \/ RejectGet \/ Tick
SpecCache == InitCache /\ [][NextCache]_vars

\* The sessions of a sheet of one day with three courses of two sections,
\* one class each: every choice of one of three hours for each class; the
\* scan meets section A first for DS and PF and section B first for OOP
PruneTimes == {"9:00-10:00", "10:00-11:00", "12:00-1:00"}
SectionOrders == <<<<"A", "B">>, <<"B", "A">>, <<"A", "B">>>>
PruneLists ==
  {[i \in 1..6 |-> Session("Monday", slots[i], ThreeCourses[(i + 1) \div 2],
                          SectionOrders[(i + 1) \div 2][2 - (i % 2)], FALSE)] :
     slots \in [1..6 -> PruneTimes]}

InitPrune ==
  /\ allSessions \in PruneLists
  /\ cells = {allSessions[i] : i \in 1..Len(allSessions)}
  /\ pc = "extract"
  /\ clashes = <<>>
  /\ validSessions = <<>>
  /\ selectedCourseNames = <<>>
  /\ excludedAssignments = <<>>
  /\ optimal = NoResult
  /\ responses = <<>>
  /\ legend = <<>>
  /\ batch = ""
  /\ grid = {}
  /\ entries = <<>>
  /\ catalog = <<>>
  /\ cachedSpreadsheet = Null
  /\ cacheTimestamp = 0
  /\ now = 0
  /\ pending = {}
  /\ returned = <<>>
NextPrune == PostOptimalScheduleOfThree
SpecPrune == InitPrune /\ [][NextPrune]_vars

\* The sessions of a sheet with three courses of two sections in which the
\* sections of DS have two classes each, the second class of section A on
\* Monday or Tuesday and that of section B on Monday, and the other
\* sections one class on Monday, each class at one of two hours
NodeTimes == {"9:00-10:00", "10:00-11:00"}
NodeCourses == <<"DS", "DS", "DS", "DS", "OOP", "OOP", "PF", "PF">>
NodeSections == <<"A", "A", "B", "B", "A", "B", "A", "B">>
NodeLists ==
  {[i \in 1..8 |-> Session(IF i = 2 THEN day ELSE "Monday", slots[i], NodeCourses[i], NodeSections[i], FALSE)] :
     slots \in [1..8 -> NodeTimes], day \in {"Monday", "Tuesday"}}

InitNodes ==
  /\ allSessions \in NodeLists
  /\ cells = {allSessions[i] : i \in 1..Len(allSessions)}
  /\ pc = "extract"
  /\ clashes = <<>>
  /\ validSessions = <<>>
  /\ selectedCourseNames = <<>>
  /\ excludedAssignments = <<>>
  /\ optimal = NoResult
  /\ responses = <<>>
  /\ legend = <<>>
  /\ batch = ""
  /\ grid = {}
  /\ entries = <<>>
  /\ catalog = <<>>
  /\ cachedSpreadsheet = Null
  /\ cacheTimestamp = 0
  /\ now = 0
  /\ pending = {}
  /\ returned = <<>>
NextNodes == PostOptimalScheduleOfThree
SpecNodes == InitNodes /\ [][NextNodes]_vars

\* The sessions of a sheet with three courses in which section A of DS has
\* two classes, the second on Monday or Tuesday, OOP has one section and PF
\* two, each class at one of three hours or without a time
GapTimes == {"8:00-9:00", "9:00-10:00", "11:00-12:00", "Unknown"}
GapCourses == <<"DS", "DS", "OOP", "PF", "PF">>
GapSections == <<"A", "A", "A", "A", "B">>
GapLists ==
  {[i \in 1..5 |-> Session(IF i = 2 THEN day ELSE "Monday", slots[i], GapCourses[i], GapSections[i], FALSE)] :
     slots \in [1..5 -> GapTimes], day \in {"Monday", "Tuesday"}}

InitGaps ==
  /\ allSessions \in GapLists
  /\ cells = {allSessions[i] : i \in 1..Len(allSessions)}
  /\ pc = "extract"
  /\ clashes = <<>>
  /\ validSessions = <<>>
  /\ selectedCourseNames = <<>>
  /\ excludedAssignments = <<>>
  /\ optimal = NoResult
  /\ responses = <<>>
  /\ legend = <<>>
  /\ batch = ""
  /\ grid = {}
  /\ entries = <<>>
  /\ catalog = <<>>
  /\ cachedSpreadsheet = Null
  /\ cacheTimestamp = 0
  /\ now = 0
  /\ pending = {}
  /\ returned = <<>>
NextGaps == PostOptimalScheduleOfThree
SpecGaps == InitGaps /\ [][NextGaps]_vars

\* Cells that name one course in two cases, as a class and as a lab
DedupCells ==
  CellsOf({"DS", "ds"}, {"A", "B"}, Days(2), {"9:00-10:00", "10:00-11:00"}, {FALSE, TRUE})
InitDedup == InitWith(DedupCells)
NextDedup == Extract(MaxDedupSessions) \/ CallDetectClashes
SpecDedup == InitDedup /\ [][NextDedup]_vars

\* The sheets of the two passes: a legend of two batches, and course entries
\* with the section in each of the forms the patterns know, with two
\* sections, with a time, and without a section
PassLegend ==
  <<[formattedValue |-> "BS-CS-1", colorCode |-> "0.500.500.50"],
    [formattedValue |-> "BS-SE-1", colorCode |-> "0.200.200.20"]>>
PassTexts ==
  {"DS (CS-A)", "DS-A", "Prog Lab (CS-A, G-1)", "DS (CS-A) (B)", "PF C Lab",
   "DS (CS-A) 09:00-10:45", "OOP (B)", "Maths"}
PassCells ==
  {[formattedValue |-> v, colorCode |-> c, day |-> "Monday", isLab |-> FALSE, labTime |-> "", rowTime |-> "9:00-10:00"] :
     v \in PassTexts, c \in {"0.500.500.50", "0.200.200.20"}}
PassGrids == UNION {[1..n -> PassCells] : n \in 0..MaxPassCells}

InitPasses ==
  /\ cells = {}
  /\ allSessions = <<>>
  /\ pc = "request"
  /\ clashes = <<>>
  /\ validSessions = <<>>
  /\ selectedCourseNames = <<>>
  /\ excludedAssignments = <<>>
  /\ optimal = NoResult
  /\ responses = <<>>
  /\ legend = PassLegend
  /\ batch = ""
  /\ grid = {}
  /\ entries \in PassGrids
  /\ catalog = <<>>
  /\ cachedSpreadsheet = Null
  /\ cacheTimestamp = 0
  /\ now = 0
  /\ pending = {}
  /\ returned = <<>>
NextPasses == ExtractAllCourses \/ ScanAllSessionsForBatch
SpecPasses == InitPasses /\ [][NextPasses]_vars

\* Cells of one batch in class rows and lab rows, with and without a time
\* in the entry, in columns with and without a text in the lab time row and
\* in the time row
SlotTexts == {"DS (CS-A)", "DS (CS-A) 09:00-10:45", "OOP (CS-B) 2:00"}
SlotCells ==
  {[formattedValue |-> v, colorCode |-> "0.500.500.50", day |-> "Monday", isLab |-> l, labTime |-> lt, rowTime |-> rt] :
     v \in SlotTexts, l \in BOOLEAN, lt \in {"", "2:00-5:00"}, rt \in {"", "9:00-10:00"}}
SlotGrids == UNION {[1..n -> SlotCells] : n \in 0..MaxSlotCells}

InitSlots ==
  /\ cells = {}
  /\ allSessions = <<>>
  /\ pc = "request"
  /\ clashes = <<>>
  /\ validSessions = <<>>
  /\ selectedCourseNames = <<>>
  /\ excludedAssignments = <<>>
  /\ optimal = NoResult
  /\ responses = <<>>
  /\ legend = PassLegend
  /\ batch = ""
  /\ grid = {}
  /\ entries \in SlotGrids
  /\ catalog = <<>>
  /\ cachedSpreadsheet = Null
  /\ cacheTimestamp = 0
  /\ now = 0
  /\ pending = {}
  /\ returned = <<>>
NextSlots == ExtractAllCourses \/ ScanAllSessionsForBatch
SpecSlots == InitSlots /\ [][NextSlots]_vars

InitOverlap == InitWith(OverlapCells)
NextOverlap == Extract(MaxOverlapSessions) \/ CallDetectClashes
SpecOverlap == InitOverlap /\ [][NextOverlap]_vars

InitRepeat == InitWith(RepeatCells)
NextRepeat ==
  Extract(MaxRepeatSessions) \/ PostOptimalSchedule \/ PostOptimalScheduleAgain
SpecRepeat == InitRepeat /\ [][NextRepeat]_vars

(***************************************************************************)
(* What the claims speak of, stated over the inputs of the call            *)
(***************************************************************************)
Range(seq) == {seq[i] : i \in 1..Len(seq)}

\* The sections of a course that have a session in allSessions
KnownSections(courseName) ==
  {s.section : s \in {x \in Range(allSessions) : x.courseName = courseName}}

\* ... and are not excluded for it in the request
AllowedSections(courseName) ==
  KnownSections(courseName) \ Range(excludedSections(excludedAssignments, courseName))

Searched == pc = "searched"
SomeCourseWithoutSection ==
  \E i \in 1..Len(selectedCourseNames) : AllowedSections(selectedCourseNames[i]) = {}
SearchRan == Searched /\ ~SomeCourseWithoutSection

\* Every choice of one allowed section per selected course
Combinations ==
  {f \in [1..Len(selectedCourseNames) -> UNION {KnownSections(c) : c \in CourseNames}] :
     \A i \in 1..Len(selectedCourseNames) :
       f[i] \in AllowedSections(selectedCourseNames[i])}

RECURSIVE SessionsUpTo(_, _)
SessionsUpTo(f, n) ==
  IF n = 0 THEN <<>>
  ELSE LET chosen(s) == s.courseName = selectedCourseNames[n] /\ s.section = f[n]
       IN  SessionsUpTo(f, n - 1) \o SelectSeq(allSessions, chosen)

NormalizedSchedule(f) == filterValidSessions(SessionsUpTo(f, Len(selectedCourseNames)))
ClashCount(f) == Len(detectClashes(NormalizedSchedule(f)))
GapScore(f) == calculateTotalGapScore(NormalizedSchedule(f))
AssignmentsOf(f) ==
  [c \in Range(selectedCourseNames) |->
     f[CHOOSE i \in 1..Len(selectedCourseNames) : selectedCourseNames[i] = c]]

\* The clash count and the gap score of every combination
Scores == [f \in Combinations |-> [clashCount |-> ClashCount(f), gapScore |-> GapScore(f)]]
IsMinimumClashes(score, f) ==
  \A g \in DOMAIN score : score[f].clashCount <= score[g].clashCount
IsOptimal(score, f) ==
  /\ IsMinimumClashes(score, f)
  /\ \A g \in DOMAIN score :
       score[g].clashCount = score[f].clashCount => score[f].gapScore <= score[g].gapScore

\* C1: when every selected course has an available section, the result is a
\* combination of one available section per course whose clash count on its
\* normalized schedule is the least over all combinations and whose gap
\* score is the least among the combinations with that clash count.
C1_MinimumClashesThenGaps ==
  SearchRan =>
    LET score == Scores
    IN  \E f \in Combinations :
          /\ optimal.assignments = AssignmentsOf(f)
          /\ optimal.schedule = NormalizedSchedule(f)
          /\ IsOptimal(score, f)

\* The four combinations of two courses with two sections each, one of them
\* pruned, and clash-free combinations with different gap scores
C1_Witness ==
  /\ SearchRan
  /\ Cardinality(Combinations) = 4
  /\ Len(optimal.leaves) < 4
  /\ \E f \in Combinations : IsMinimumClashes(Scores, f) /\ ~IsOptimal(Scores, f)

\* C2: when the search runs, assignments gives every selected course one
\* section, a section with a session of that course in allSessions and not
\* excluded for it, and the schedule holds only sessions of allSessions of
\* the assigned (course, section) pairs.
C2_AssignedSectionsAvailable ==
  SearchRan =>
    /\ DOMAIN optimal.assignments = Range(selectedCourseNames)
    /\ \A c \in Range(selectedCourseNames) :
         optimal.assignments[c] \in AllowedSections(c)
    /\ \A i \in 1..Len(optimal.schedule) :
         LET s == optimal.schedule[i]
         IN  /\ s \in Range(allSessions)
             /\ s.courseName \in Range(selectedCourseNames)
             /\ s.section = optimal.assignments[s.courseName]

\* An exclusion that changes the answer
C2_Witness ==
  /\ SearchRan
  /\ \E c \in Range(selectedCourseNames) :
       /\ Range(excludedSections(excludedAssignments, c)) \cap KnownSections(c) # {}
       /\ findOptimalSchedule(allSessions, selectedCourseNames, <<>>).assignments[c]
            \notin AllowedSections(c)
  /\ Len(optimal.schedule) = 2

\* C3: when a selected course has no available section, the result is the
\* failure with an empty schedule, empty assignments, no clashes and the
\* name of the first such course in input order, and no combination is
\* evaluated.
C3_NoSectionFailsAtOnce ==
  (Searched /\ SomeCourseWithoutSection) =>
    LET first == CHOOSE i \in 1..Len(selectedCourseNames) :
                   /\ AllowedSections(selectedCourseNames[i]) = {}
                   /\ \A j \in 1..(i - 1) : AllowedSections(selectedCourseNames[j]) # {}
    IN  /\ optimal.success = FALSE
        /\ optimal.schedule = <<>>
        /\ optimal.assignments = <<>>
        /\ optimal.clashes = <<>>
        /\ optimal.message.kind = "No available sections"
        /\ optimal.message.courseName = selectedCourseNames[first]
        /\ optimal.leaves = <<>>

\* Two selected courses without a section: one with every known section
\* excluded, then one without any session
C3_Witness ==
  /\ Searched
  /\ Len(selectedCourseNames) = 2
  /\ KnownSections(selectedCourseNames[1]) # {}
  /\ AllowedSections(selectedCourseNames[1]) = {}
  /\ KnownSections(selectedCourseNames[2]) = {}

\* C4: when the search runs, success holds exactly when the least clash
\* count is 0, and then clashes is empty; otherwise the result carries a
\* combination with the least clash count, its normalized schedule, and the
\* non-empty list detectClashes gives for that schedule, whose length is
\* the minimum named in the message.
C4_SuccessIffClashFree ==
  SearchRan =>
    LET score == Scores
    IN  \E f \in Combinations :
          /\ IsMinimumClashes(score, f)
          /\ optimal.assignments = AssignmentsOf(f)
          /\ optimal.schedule = NormalizedSchedule(f)
          /\ optimal.success = (score[f].clashCount = 0)
          /\ optimal.success => optimal.clashes = <<>>
          /\ ~optimal.success =>
               /\ optimal.clashes = detectClashes(optimal.schedule)
               /\ Len(optimal.clashes) > 0
               /\ Len(optimal.clashes) = score[f].clashCount
               /\ optimal.message.kind = "Could not find a clash-free schedule"
               /\ optimal.message.minimumClashes = score[f].clashCount

\* Every one of several combinations clashes
C4_Witness ==
  /\ SearchRan
  /\ Cardinality(Combinations) >= 2
  /\ ~optimal.success
  /\ Len(optimal.clashes) = 1
  /\ Len(optimal.schedule) = 2

Detected == pc = "detected"
SessionPairs == {p \in (1..Len(allSessions)) \X (1..Len(allSessions)) : p[1] < p[2]}
IsOf(clash, k, session) ==
  IF k = 1
    THEN /\ clash.course1 = session.courseName /\ clash.section1 = session.section
         /\ clash.timeSlot1 = session.timeSlot /\ clash.day = session.day
    ELSE /\ clash.course2 = session.courseName /\ clash.section2 = session.section
         /\ clash.timeSlot2 = session.timeSlot /\ clash.day = session.day

\* C5: detectClashes never returns a Clash between two sessions of one
\* course name.
C5_SameCourseImmunity ==
  Detected => \A i \in 1..Len(clashes) : clashes[i].course1 # clashes[i].course2

\* Two sections of one course at overlapping times of one day
C5_Witness ==
  /\ Detected
  /\ \E p \in SessionPairs :
       /\ allSessions[p[1]].courseName = allSessions[p[2]].courseName
       /\ allSessions[p[1]].section # allSessions[p[2]].section
       /\ allSessions[p[1]].day = allSessions[p[2]].day
       /\ doSessionsOverlap(allSessions[p[1]], allSessions[p[2]])

\* C6: the list of detectClashes has at most one Clash per unordered pair of
\* courses and day.
C6_OneClashPerPairAndDay ==
  Detected =>
    \A i \in 1..Len(clashes), j \in 1..Len(clashes) :
      (/\ {clashes[i].course1, clashes[i].course2}
            = {clashes[j].course1, clashes[j].course2}
       /\ clashes[i].day = clashes[j].day) => i = j

\* Two overlapping session pairs of the same two courses on one day, met in
\* both orders of the courses
C6_Witness ==
  /\ Detected
  /\ Len(clashes) = 1
  /\ \E p \in SessionPairs, q \in SessionPairs :
       /\ p # q
       /\ \A r \in {p, q} :
            /\ allSessions[r[1]].courseName # allSessions[r[2]].courseName
            /\ allSessions[r[1]].day = allSessions[r[2]].day
            /\ doSessionsOverlap(allSessions[r[1]], allSessions[r[2]])
       /\ allSessions[p[1]].day = allSessions[q[1]].day
       /\ allSessions[p[1]].courseName = allSessions[q[2]].courseName

\* C7: for every two input sessions of different courses on the same day
\* with overlapping times, the list of detectClashes has a Clash of their
\* two courses and day.
C7_EveryOverlapReported ==
  Detected =>
    \A p \in SessionPairs :
      LET s1 == allSessions[p[1]]
          s2 == allSessions[p[2]]
      IN  (/\ s1.courseName # s2.courseName
           /\ s1.day = s2.day
           /\ s1.startMinutes # UNKNOWN_MINUTES /\ s2.startMinutes # UNKNOWN_MINUTES
           /\ s1.startMinutes < s2.endMinutes /\ s2.startMinutes < s1.endMinutes)
          => \E i \in 1..Len(clashes) :
               /\ {clashes[i].course1, clashes[i].course2} = {s1.courseName, s2.courseName}
               /\ clashes[i].day = s1.day

\* C8: two known time ranges overlap exactly when neither ends at or before
\* the start of the other, for doTimeSlotsOverlap on the texts and for the
\* comparison of minutes in detectClashes; no Clash is reported of two
\* sessions whose ranges only touch.
HalfOpenOverlap(start1, end1, start2, end2) == ~(end1 <= start2 \/ end2 <= start1)

C8_HalfOpenOverlap ==
  Detected =>
  /\ \A p \in SessionPairs :
       LET s1 == allSessions[p[1]]
           s2 == allSessions[p[2]]
           t1 == parseTimeSlot(s1.timeSlot)
           t2 == parseTimeSlot(s2.timeSlot)
       IN  (t1.start # UNKNOWN_MINUTES /\ t2.start # UNKNOWN_MINUTES) =>
             /\ doTimeSlotsOverlap(s1.timeSlot, s2.timeSlot)
                  = HalfOpenOverlap(t1.start, t1.end, t2.start, t2.end)
             /\ doSessionsOverlap(s1, s2)
                  = HalfOpenOverlap(s1.startMinutes, s1.endMinutes,
                                    s2.startMinutes, s2.endMinutes)
             /\ (t1.end = t2.start \/ t2.end = t1.start) =>
                  /\ ~doTimeSlotsOverlap(s1.timeSlot, s2.timeSlot)
                  /\ ~doSessionsOverlap(s1, s2)
  /\ \A i \in 1..Len(clashes) :
       LET t1 == parseTimeSlot(clashes[i].timeSlot1)
           t2 == parseTimeSlot(clashes[i].timeSlot2)
       IN  t1.start < t2.end /\ t2.start < t1.end

\* Two sessions of different courses on one day, the one ending when the
\* other starts, and no Clash
C8_Witness ==
  /\ Detected
  /\ Len(allSessions) = 2
  /\ allSessions[1].courseName # allSessions[2].courseName
  /\ allSessions[1].day = allSessions[2].day
  /\ allSessions[1].endMinutes = allSessions[2].startMinutes
  /\ clashes = <<>>

\* C9: a session whose time text does not parse (parseTimeSlot gives 9999)
\* is neither session of any Clash of detectClashes.
C9_UnknownTimeNeverClashes ==
  Detected =>
    \A k \in 1..Len(allSessions) :
      parseTimeSlot(allSessions[k].timeSlot).start = UNKNOWN_MINUTES =>
        \A i \in 1..Len(clashes) :
          ~IsOf(clashes[i], 1, allSessions[k]) /\ ~IsOf(clashes[i], 2, allSessions[k])

\* Sessions without a time beside sessions of another course on the same
\* day, with and without a time
C9_Witness ==
  /\ Detected
  /\ Len(allSessions) = 3
  /\ allSessions[1].timeSlot = "TBA"
  /\ allSessions[2].timeSlot = "Unknown"
  /\ allSessions[3].startMinutes # UNKNOWN_MINUTES
  /\ allSessions[1].courseName # allSessions[2].courseName
  /\ allSessions[1].courseName # allSessions[3].courseName
  /\ allSessions[1].day = allSessions[2].day
  /\ allSessions[1].day = allSessions[3].day

\* C10: filterValidSessions applied to its own result returns that result,
\* the same sessions in the same order.
C10_FilterIdempotent ==
  pc = "filtered" => filterValidSessions(validSessions) = validSessions

\* A result that drops sessions and reorders the rest
C10_Witness ==
  /\ pc = "filtered"
  /\ Len(validSessions) = 3
  /\ Len(allSessions) = 4
  /\ validSessions[1] = allSessions[4]
  /\ validSessions[2].sessionType = "Class"
  /\ validSessions[3].sessionType = "Lab"
  /\ validSessions[3] = allSessions[1]

Filtered == pc = "filtered"

\* The positions of the input sessions of a course and a kind that are the
\* first of their day
FirstOfDay(courseName, kind) ==
  {i \in 1..Len(allSessions) :
     /\ allSessions[i].courseName = courseName
     /\ allSessions[i].sessionType = kind
     /\ \A j \in 1..(i - 1) :
          ~(/\ allSessions[j].courseName = courseName
            /\ allSessions[j].sessionType = kind
            /\ allSessions[j].day = allSessions[i].day)}

\* ... and among them the earliest `most`
Earliest(courseName, kind, most) ==
  {i \in FirstOfDay(courseName, kind) :
     Cardinality({j \in FirstOfDay(courseName, kind) : j < i}) < most}

NamedLab(courseName) == includes(toLowerCase(courseName), "lab")

\* The positions of the input sessions the claim lets through
KeptPositions ==
  UNION {Earliest(c, "Lab", 1) \cup (IF NamedLab(c) THEN {} ELSE Earliest(c, "Class", 2)) :
           c \in {allSessions[i].courseName : i \in 1..Len(allSessions)}}

OfKind(courseName, kind) ==
  {i \in 1..Len(validSessions) :
     /\ validSessions[i].courseName = courseName
     /\ validSessions[i].sessionType = kind}

\* C11: the output of filterValidSessions holds, per course name, at most 1
\* Lab and at most 2 Class sessions, never two sessions of one kind on one
\* day, no Class session of a course whose name contains "lab", and within
\* each kind the sessions kept are the earliest of the input: the first of
\* each day, then the first 1 or 2 of those.
C11_FilterKeepsEarliest ==
  Filtered =>
    /\ \A c \in {validSessions[i].courseName : i \in 1..Len(validSessions)} :
         /\ Cardinality(OfKind(c, "Lab")) <= 1
         /\ Cardinality(OfKind(c, "Class")) <= 2
         /\ NamedLab(c) => OfKind(c, "Class") = {}
    /\ \A i, j \in 1..Len(validSessions) :
         (/\ i # j
          /\ validSessions[i].courseName = validSessions[j].courseName
          /\ validSessions[i].sessionType = validSessions[j].sessionType)
           => validSessions[i].day # validSessions[j].day
    /\ Range(validSessions) = {allSessions[i] : i \in KeptPositions}
    /\ Len(validSessions) = Cardinality(KeptPositions)

\* Four Class sessions of one course on three days: the second of a day and
\* the third day are dropped
C11_Witness ==
  /\ Filtered
  /\ Len(allSessions) = 4
  /\ \A i \in 1..4 : allSessions[i].courseName = "DS" /\ allSessions[i].sessionType = "Class"
  /\ allSessions[1].day = allSessions[2].day
  /\ Cardinality({allSessions[i].day : i \in 1..4}) = 3
  /\ validSessions = <<allSessions[1], allSessions[3]>>

SameRequest(a, b) ==
  /\ a.selectedCourseNames = b.selectedCourseNames
  /\ a.excludedAssignments = b.excludedAssignments

C13_OverlapSymmetric ==
  \A i, j \in 1..Len(allSessions) :
    /\ doSessionsOverlap(allSessions[i], allSessions[j])
         = doSessionsOverlap(allSessions[j], allSessions[i])
    /\ doTimeSlotsOverlap(allSessions[i].timeSlot, allSessions[j].timeSlot)
         = doTimeSlotsOverlap(allSessions[j].timeSlot, allSessions[i].timeSlot)

\* Two sessions of different courses that overlap in part, the earlier one
\* first, reported as a Clash
C13_Witness ==
  /\ Detected
  /\ Len(allSessions) = 2
  /\ allSessions[1].startMinutes < allSessions[2].startMinutes
  /\ allSessions[2].startMinutes < allSessions[1].endMinutes
  /\ doSessionsOverlap(allSessions[1], allSessions[2])
  /\ doSessionsOverlap(allSessions[2], allSessions[1])
  /\ Len(clashes) = 1

\* C14: every session has startMinutes <= endMinutes unless both are the
\* unknown sentinel, for every time text with one or two H:MM tokens, with
\* or without AM/PM markers.
C14_StartNotAfterEnd ==
  \A i \in 1..Len(allSessions) :
    \/ /\ allSessions[i].startMinutes = UNKNOWN_MINUTES
       /\ allSessions[i].endMinutes = UNKNOWN_MINUTES
    \/ allSessions[i].startMinutes <= allSessions[i].endMinutes

\* The hour of the day the claim gives to an hour token without a marker
InstitutionalHour(hour) ==
  IF hour >= 8 /\ hour <= 11 THEN hour
  ELSE IF hour = 12 THEN 12
  ELSE hour + 12

\* C15: without an AM/PM marker parseTimeSlot maps each hour token by the
\* heuristic: 8 to 11 stay, 12 stays noon, 1 to 7 become hour + 12; so
\* "1:00-2:00" parses to (780, 840).
C15_InstitutionalHeuristic ==
  \A i \in 1..Len(allSessions) :
    LET session == allSessions[i]
    IN  /\ \A h \in 1..12 :
             /\ session.timeSlot = ClockText(h, "00")
                  => session.startMinutes = InstitutionalHour(h) * 60
             /\ session.timeSlot = RangeText(h, h, "30")
                  => /\ session.startMinutes = InstitutionalHour(h) * 60
                     /\ session.endMinutes = InstitutionalHour(h) * 60 + 30
        /\ \A h1, h2 \in 1..12 :
             session.timeSlot = RangeText(h1, h2, "00")
               => /\ session.startMinutes = InstitutionalHour(h1) * 60
                  /\ session.endMinutes = InstitutionalHour(h2) * 60
        /\ session.timeSlot = "1:00-2:00"
             => session.startMinutes = 780 /\ session.endMinutes = 840

\* The session of a cell under the time text "1:00-2:00"
C15_Witness ==
  /\ Len(allSessions) = 1
  /\ allSessions[1].timeSlot = "1:00-2:00"
  /\ allSessions[1].startMinutes = 780
  /\ allSessions[1].endMinutes = 840

\* Some header cell registers a color for the requested batch
RegistersBatch == \E i \in 1..Len(legend) : registersColor(legend[i]) /\ trim(legend[i].formattedValue) = batch
BatchAnswered == pc # "request"

\* C16: when no header cell registers a color for the requested batch,
\* getAllSessionsForBatch returns the empty list of sessions: it ends without
\* an error, and no data cell of the grid is turned into a session.
C16_MissingLegendColor == (BatchAnswered /\ ~RegistersBatch) => (pc = "returned" /\ allSessions = <<>> /\ cells = {})
C16_Witness == /\ BatchAnswered
               /\ ~RegistersBatch
               /\ Len(legend) = MaxLegendCells
               /\ \E i \in 1..Len(legend) : registersColor(legend[i])
               /\ \E cell \in grid : cell.colorCode = legend[1].colorCode
               /\ pc = "returned"

\* A step in which fetchSpreadsheet is entered, and one in which a remote
\* get answers with data
IsEntered == Len(returned') + Cardinality(pending') = Len(returned) + Cardinality(pending) + 1
IsResolved == Len(returned') = Len(returned) + 1 /\ returned'[Len(returned')].via = "fetch"
Fresh == cachedSpreadsheet # Null /\ now - cacheTimestamp < 1800000
EnteredRight ==
  IsEntered =>
    /\ (pending' = pending) <=> Fresh
    /\ Fresh => /\ returned' = Append(returned, returned'[Len(returned')])
                /\ returned'[Len(returned')].via = "cache"
                /\ returned'[Len(returned')].value = cachedSpreadsheet
    /\ cachedSpreadsheet' = cachedSpreadsheet /\ cacheTimestamp' = cacheTimestamp
ResolvedRight ==
  IsResolved =>
    /\ cachedSpreadsheet' = returned'[Len(returned')].value
    /\ cacheTimestamp' = returned'[Len(returned')].start
    /\ returned'[Len(returned')].value \in Responses
NoStaleReturn == \A i \in 1..Len(returned) : returned[i].via = "cache" => (returned[i].cached # Null /\ returned[i].value = returned[i].cached /\ returned[i].at - returned[i].stamp < 1800000)

\* C17: a call of fetchSpreadsheet returns the cached document, with no
\* remote get, exactly when a document is cached and now - cacheTimestamp
\* is less than 30 minutes (1,800,000 ms); no call returns a cached document
\* of age 30 minutes or more; a remote get that answers with data replaces
\* the cached document by the data and the timestamp by the now the call
\* read on entry.
C17_CacheThirtyMinutes == []NoStaleReturn /\ [][EnteredRight /\ ResolvedRight]_vars
C17_Witness == /\ Len(returned) = 3
               /\ returned[1].via = "fetch"
               /\ returned[2].via = "cache"
               /\ returned[2].at - returned[2].stamp = 1800000 - 1
               /\ returned[3].via = "fetch"
               /\ returned[3].cached # Null
               /\ returned[3].start - returned[3].stamp = 1800000
               /\ cacheTimestamp = returned[3].start

\* The catalog was returned
Catalogued == pc = "returned" /\ Len(legend) > 0
\* The composite key of a course as a tuple
TupleOf(c) == <<c.name, c.department, c.section, c.batch>>
\* The batch a header cell gives to a color: the last header cell of that
\* color that names a batch
BatchOfColor(color) ==
  LET named == {i \in 1..Len(legend) : legend[i].colorCode = color /\ includes(legend[i].formattedValue, "BS")}
  IN  IF named = {} THEN "" ELSE trim(legend[CHOOSE i \in named : \A j \in named : j <= i].formattedValue)
\* The data cells that hold a course that is not cancelled, by position in
\* scan order, and what each is parsed to
CourseCellAt(i) == entries[i].formattedValue # "" /\ BatchOfColor(entries[i].colorCode) # ""
ParsedAt(i) == parseCourseEntry(entries[i].formattedValue, BatchOfColor(entries[i].colorCode))
ListedCells == {i \in 1..Len(entries) : CourseCellAt(i) /\ ~includes(toLowerCase(ParsedAt(i).name), "cancelled")}
OnePerTuple == \A i, j \in 1..Len(catalog) : TupleOf(catalog[i]) = TupleOf(catalog[j]) => i = j
NeverMerged == \A i \in ListedCells : \E k \in 1..Len(catalog) : TupleOf(catalog[k]) = TupleOf(ParsedAt(i))
FirstKept ==
  \A k \in 1..Len(catalog) : \E i \in ListedCells :
    /\ TupleOf(ParsedAt(i)) = TupleOf(catalog[k])
    /\ \A j \in ListedCells : TupleOf(ParsedAt(j)) = TupleOf(catalog[k]) => i <= j
    /\ catalog[k].fullEntry = entries[i].formattedValue
    /\ catalog[k].day = entries[i].day
    /\ catalog[k].colorCode = entries[i].colorCode

\* C18: the catalog extractAllCourses returns holds at most one course per
\* tuple (name, department, section, batch); every tuple parsed from a
\* course cell that is not cancelled has a course (no two distinct tuples
\* are merged); and the course of a tuple is the one built from the first
\* cell of that tuple in scan order.
C18_CatalogPerTuple == Catalogued => (OnePerTuple /\ NeverMerged /\ FirstKept)
\* The catalog holds one course per tuple and keeps the first cell of each
CatalogOnePerTupleFirstKept == Catalogued => (OnePerTuple /\ FirstKept)
\* No two tuples are merged when no batch name has an underscore
CatalogNeverMergedPlainBatches == (Catalogued /\ ~includes(legend[1].formattedValue, "_")) => NeverMerged

\* The five rules of the catalog pass by name: whether a rule matches an
\* entry, and the letter its leftmost match captures
RuleMatch(rule, entry, department) ==
  CASE rule = "department" -> departmentSectionMatch(entry, department)
    [] rule = "group" -> groupSectionMatch(entry, department)
    [] rule = "dash" -> dashLetterMatch(entry)
    [] rule = "paren" -> parenLetterMatch(entry)
    [] rule = "spaced" -> spacedLetterMatch(entry)
RuleLetter(rule, entry, department) ==
  charAt(entry, RuleMatch(rule, entry, department).index + (IF rule \in {"department", "group"} THEN Len(department) + 2 ELSE 1))
RulesMatching(order, entry, department) == {r \in 1..Len(order) : RuleMatch(order[r], entry, department).index > 0}
\* The section given by the earliest rule of an order that matches
SectionByOrder(order, entry, department) ==
  IF RulesMatching(order, entry, department) = {} THEN ""
  ELSE RuleLetter(order[CHOOSE r \in RulesMatching(order, entry, department) : \A q \in RulesMatching(order, entry, department) : r <= q], entry, department)
GroupFirst == <<"group", "department", "dash", "paren", "spaced">>
DepartmentFirst == <<"department", "group", "dash", "paren", "spaced">>

\* C19 (amended): in the catalog pass the section of a course is the letter
\* of the earliest matching rule in the order: the group form (DEPT-X, G-n),
\* then (DEPT-X), then -X before a word boundary, then (X), then a lone
\* uppercase letter between white space; it is empty when no rule matches.
C19_GroupRuleFirst == Catalogued => \A k \in 1..Len(catalog) : catalog[k].section = SectionByOrder(GroupFirst, catalog[k].fullEntry, catalog[k].department)
\* C19 as stated: the same with the order (DEPT-X), then the group form
\* (DEPT-X, G-n), then -X, then (X), then a lone uppercase letter.
C19_DepartmentRuleFirst == Catalogued => \A k \in 1..Len(catalog) : catalog[k].section = SectionByOrder(DepartmentFirst, catalog[k].fullEntry, catalog[k].department)
C19_Witness == /\ Catalogued
               /\ \E k \in 1..Len(catalog) :
                    /\ RuleMatch("group", catalog[k].fullEntry, catalog[k].department).index > 0
                    /\ RuleMatch("department", catalog[k].fullEntry, catalog[k].department).index > 0
                    /\ catalog[k].section = RuleLetter("group", catalog[k].fullEntry, catalog[k].department)
                    /\ catalog[k].section # RuleLetter("department", catalog[k].fullEntry, catalog[k].department)
               /\ \E k \in 1..Len(catalog) :
                    /\ RuleMatch("department", catalog[k].fullEntry, catalog[k].department).index > 0
                    /\ RuleMatch("dash", catalog[k].fullEntry, catalog[k].department).index > 0
                    /\ catalog[k].section # RuleLetter("dash", catalog[k].fullEntry, catalog[k].department)

\* The search without the early pruning: a depth-first search over the same
\* options in the same order that evaluates every complete assignment and
\* keeps a result only when isBetterSchedule prefers it to the best so far
keepIfBetter(result, bestResult) == IF isBetterSchedule(result, bestResult) THEN result ELSE bestResult
RECURSIVE exhaustiveSearch(_, _, _, _, _, _)
exhaustiveSearch(options, index, currentAssignments, currentSchedule, bestResult, k) ==
  IF index = Len(options) THEN leaf(currentAssignments, currentSchedule)
  ELSE IF k > Len(options[index + 1].sections) THEN bestResult
  ELSE exhaustiveSearch(options, index, currentAssignments, currentSchedule,
         keepIfBetter(exhaustiveSearch(options, index + 1,
                        Assign(currentAssignments, options[index + 1].courseName, options[index + 1].sections[k]),
                        currentSchedule \o sectionSessions(allSessions, selectedCourseNames, options[index + 1].courseName, options[index + 1].sections[k]),
                        bestResult, 1),
                      bestResult),
         k + 1)
Exhaustive ==
  exhaustiveSearch(courseOptions(allSessions, selectedCourseNames, excludedAssignments, Len(selectedCourseNames)),
                   0, <<>>, <<>>, NoBest, 1)
\* C20: when the search runs, its result has the assignments, the clash
\* count and the gap score (and the schedule) that the depth-first search
\* without pruning gives for the same courses and sections in the same
\* order.
C20_PruningPreservesResult ==
  SearchRan =>
    /\ optimal.assignments = Exhaustive.assignments
    /\ optimal.schedule = Exhaustive.schedule
    /\ Len(detectClashes(optimal.schedule)) = Exhaustive.clashCount
    /\ optimal.success = (Exhaustive.clashCount = 0)
    /\ optimal.message.minimumClashes = Exhaustive.clashCount
    /\ optimal.success => optimal.message.gapScore = Exhaustive.gapScore
    /\ calculateTotalGapScore(optimal.schedule) = Exhaustive.gapScore
C20_Witness == /\ SearchRan
               /\ optimal.success
               /\ Len(selectedCourseNames) = 3
               /\ Cardinality(Combinations) = 8
               /\ Len(optimal.leaves) \in 2..5

\* The clash count of the normalized schedule of the first n courses of a
\* combination: a node of the search at depth n
NodeClashCount(f, n) == Len(detectClashes(filterValidSessions(SessionsUpTo(f, n))))
\* The sessions of the first n courses of a combination that the filter drops
NodeDropped(f, n) == Len(SessionsUpTo(f, n)) - Len(filterValidSessions(SessionsUpTo(f, n)))

\* C21: at every node of the search the clash count of the normalized
\* partial schedule is at most the clash count of the normalized schedule
\* after the sessions of each further section choice are appended, down to
\* every complete assignment below the node.
C21_ClashCountMonotone ==
  SearchRan =>
    \A f \in Combinations : \A n \in 0..Len(selectedCourseNames) : \A m \in n..Len(selectedCourseNames) :
      NodeClashCount(f, n) <= NodeClashCount(f, m)
C21_Witness == /\ SearchRan
               /\ Len(selectedCourseNames) = 3
               /\ \E f \in Combinations :
                    /\ NodeClashCount(f, 2) = 1
                    /\ NodeClashCount(f, 3) = 3
                    /\ NodeDropped(f, 3) > 0
               /\ \E f \in Combinations : NodeClashCount(f, 2) = 1 /\ NodeClashCount(f, 3) = 1

\* The listing of the sections of each selected course, and the depth-first
\* order of two combinations under a listing: at the first course at which
\* they differ the section of the first is listed earlier
Listings ==
  [i \in 1..Len(selectedCourseNames) |->
     availableSections(allSessions, selectedCourseNames, excludedAssignments, selectedCourseNames[i])]
FoundBefore(listing, f, g) ==
  \E i \in DOMAIN listing :
    /\ \A j \in 1..(i - 1) : f[j] = g[j]
    /\ IndexIn(listing[i], f[i]) < IndexIn(listing[i], g[i])
\* Every combination with its clash count and its gap score
ScoreTable == {[combination |-> f, clashCount |-> ClashCount(f), gapScore |-> GapScore(f)] : f \in Combinations}
\* The rows with the best clash count and, for it, the best gap score, and
\* the first of them in depth-first order
IsBestRow(table, row) ==
  \A other \in table :
    \/ row.clashCount < other.clashCount
    \/ row.clashCount = other.clashCount /\ row.gapScore <= other.gapScore
IsFirstBestRow(table, listing, row) ==
  /\ IsBestRow(table, row)
  /\ \A other \in table :
       (IsBestRow(table, other) /\ other # row) => FoundBefore(listing, row.combination, other.combination)
FirstFoundReturned(table, listing) ==
  \E row \in table : IsFirstBestRow(table, listing, row) /\ optimal.assignments = AssignmentsOf(row.combination)
TieBrokenAfterReplacement(table, listing) ==
  \E row \in table :
    /\ IsFirstBestRow(table, listing, row)
    /\ optimal.assignments = AssignmentsOf(row.combination)
    /\ \E tied \in table : tied # row /\ IsBestRow(table, tied)
    /\ \E worse \in table : ~IsBestRow(table, worse) /\ FoundBefore(listing, worse.combination, row.combination)

\* C22: when the search runs, the assignments returned are those of the
\* combination that comes first in depth-first order (courses in the order
\* of the request, sections in listing order) among the combinations with
\* the best clash count and gap score.
C22_FirstFoundWins == SearchRan => FirstFoundReturned(ScoreTable, Listings)
C22_Witness == SearchRan /\ Len(selectedCourseNames) = 3 /\ TieBrokenAfterReplacement(ScoreTable, Listings)

\* The gap score written from its definition: on each day, the sessions with
\* a time taken from the earliest start on, each adding the time between the
\* end of the session before it and its start when that time is positive
TimedOn(sessions, day) ==
  {i \in 1..Len(sessions) : sessions[i].day = day /\ sessions[i].startMinutes # 9999}
EarliestStart(sessions, among) ==
  CHOOSE i \in among :
    \A j \in among :
      \/ sessions[i].startMinutes < sessions[j].startMinutes
      \/ sessions[i].startMinutes = sessions[j].startMinutes /\ i <= j
RECURSIVE GapsAfter(_, _, _)
GapsAfter(sessions, among, previousEnd) ==
  IF among = {} THEN 0
  ELSE LET next == EarliestStart(sessions, among)
           gap == sessions[next].startMinutes - previousEnd
       IN  (IF gap > 0 THEN gap ELSE 0)
           + GapsAfter(sessions, among \ {next}, sessions[next].endMinutes)
DayGapSum(sessions, day) ==
  IF TimedOn(sessions, day) = {} THEN 0
  ELSE LET first == EarliestStart(sessions, TimedOn(sessions, day))
       IN  GapsAfter(sessions, TimedOn(sessions, day) \ {first}, sessions[first].endMinutes)
RECURSIVE SumOverDays(_, _)
SumOverDays(sessions, days) ==
  IF days = {} THEN 0
  ELSE LET day == CHOOSE d \in days : TRUE
       IN  DayGapSum(sessions, day) + SumOverDays(sessions, days \ {day})
GapSum(sessions) == SumOverDays(sessions, {sessions[i].day : i \in 1..Len(sessions)})

\* C23: the gap score of every schedule the search evaluates is the sum, day
\* by day, of the positive differences between the end of a session and the
\* start of the next one in order of start, the sessions without a time left
\* out; it is never negative, and the score reported with a clash-free
\* schedule is that sum.
C23_GapScoreIsSumOfPositiveGaps ==
  SearchRan =>
    /\ \A f \in Combinations :
         /\ GapScore(f) = GapSum(NormalizedSchedule(f))
         /\ GapScore(f) >= 0
    /\ optimal.success => optimal.message.gapScore = GapSum(optimal.schedule)
C23_Witness ==
  /\ SearchRan
  /\ optimal.success
  /\ optimal.message.gapScore = 60
  /\ Len(optimal.schedule) = 4
  /\ \E i \in 1..4 : optimal.schedule[i].startMinutes = 9999
  /\ optimal.schedule[1].startMinutes > optimal.schedule[3].startMinutes
  /\ \E i, j \in 1..4 :
       /\ i < j
       /\ optimal.schedule[i].day = optimal.schedule[j].day
       /\ optimal.schedule[j].endMinutes = optimal.schedule[i].startMinutes

\* Two sessions with the same day, time-slot text, course name up to case
\* and section
SameSlotCourseSection(a, b) ==
  /\ a.day = b.day
  /\ a.timeSlot = b.timeSlot
  /\ toLowerCase(a.courseName) = toLowerCase(b.courseName)
  /\ a.section = b.section
NoTwoAlike(sessions) ==
  \A i, j \in 1..Len(sessions) : SameSlotCourseSection(sessions[i], sessions[j]) => i = j
KeptInPlace ==
  /\ Len(allSessions') >= Len(allSessions)
  /\ SubSeq(allSessions', 1, Len(allSessions)) = allSessions

Scanned == pc = "scanned"
BatchCells ==
  {i \in 1..Len(entries) :
     /\ entries[i].colorCode = targetColor(extractBatchColors(legend), batch)
     /\ entries[i].formattedValue # ""}
CatalogParse(i) == parseCourseEntry(entries[i].formattedValue, batch)
SameSectionAndName(i) ==
  /\ sectionFromPatterns(entries[i].formattedValue, extractDepartmentFromBatch(batch), 1) = CatalogParse(i).section
  /\ batchCourseName(entries[i].formattedValue, extractDepartmentFromBatch(batch)) = CatalogParse(i).name
HasSessions(course) ==
  \E n \in 1..Len(allSessions) :
    allSessions[n].courseName = course.name /\ allSessions[n].section = course.section

\* C25: after the catalog pass and the all-sections pass over the same
\* sheets, every course cell of the batch has the same section and the same
\* cleaned name in both passes, and every course of the batch in the catalog
\* has sessions under its name and section.
C25_SamePatternList ==
  Scanned =>
    /\ \A i \in BatchCells : SameSectionAndName(i)
    /\ \A k \in 1..Len(catalog) : (catalog[k].batch = batch /\ catalog[k].section # "") => HasSessions(catalog[k])

\* The time each entry carries, the empty text for none, and the time slot
\* the precedence gives a cell: the time of the entry, else the text of the
\* lab time row in a lab row, else the text of the time row, and Unknown
\* for a missing text
TimeInEntry == ("DS (CS-A)" :> "") @@ ("DS (CS-A) 09:00-10:45" :> "09:00-10:45") @@ ("OOP (CS-B) 2:00" :> "2:00")
SectionInEntry == ("DS (CS-A)" :> "A") @@ ("DS (CS-A) 09:00-10:45" :> "A") @@ ("OOP (CS-B) 2:00" :> "B")
OrUnknown(text) == IF text = "" THEN "Unknown" ELSE text
SlotByPrecedence(cell) ==
  IF TimeInEntry[cell.formattedValue] # "" THEN TimeInEntry[cell.formattedValue]
  ELSE IF cell.isLab THEN OrUnknown(cell.labTime)
  ELSE OrUnknown(cell.rowTime)
SessionsOfCell(cell) ==
  {n \in 1..Len(allSessions) :
     /\ allSessions[n].section = SectionInEntry[cell.formattedValue]
     /\ allSessions[n].timeSlot = SlotByPrecedence(cell)}

\* C26: after the scan, every cell of the batch has a session with the time
\* slot the precedence gives it (the time of the entry, else the lab time
\* row for a lab row, else the time row, Unknown for a missing text), every
\* session has the time slot of such a cell, and a session with the time
\* slot Unknown has the minutes 9999 and 9999.
C26_TimeSlotPrecedence ==
  Scanned =>
    /\ \A i \in BatchCells : SessionsOfCell(entries[i]) # {}
    /\ \A n \in 1..Len(allSessions) : \E i \in BatchCells : n \in SessionsOfCell(entries[i])
    /\ \A n \in 1..Len(allSessions) :
         allSessions[n].timeSlot = "Unknown" => (allSessions[n].startMinutes = 9999 /\ allSessions[n].endMinutes = 9999)
C26_Witness ==
  /\ Scanned
  /\ Len(allSessions) = 2
  /\ entries[1].isLab /\ entries[1].labTime # "" /\ entries[1].rowTime # ""
  /\ allSessions[1].timeSlot = "09:00-10:45"
  /\ entries[2].isLab /\ entries[2].labTime = "" /\ entries[2].rowTime # ""
  /\ allSessions[2].timeSlot = "Unknown" /\ allSessions[2].startMinutes = 9999

\* The calls that stored their data, in the order they stored it
StoredBefore(i, j) == i < j /\ returned[i].via = "fetch" /\ returned[j].via = "fetch"

\* C27: the cache timestamp never moves backwards: a call of fetchSpreadsheet
\* that stores its data after another call stored its data did not start
\* before that call.
C27_TimestampNeverBackwards ==
  \A i, j \in 1..Len(returned) : StoredBefore(i, j) => returned[i].start <= returned[j].start

\* The orders of a session list, and the (unordered course pair, day)
\* triples of a list of clashes
Reorderings(sessions) ==
  {[i \in 1..Len(sessions) |-> sessions[p[i]]] :
     p \in {q \in [1..Len(sessions) -> 1..Len(sessions)] : \A i, j \in 1..Len(sessions) : q[i] = q[j] => i = j}}
TriplesOf(found) == {<<{found[n].course1, found[n].course2}, found[n].day>> : n \in 1..Len(found)}
SameReport(found, other) == Len(other) = Len(found) /\ TriplesOf(other) = TriplesOf(found)

\* C28: the number of clashes detectClashes reports and the set of their
\* (unordered course pair, day) triples are the same for every order of the
\* session list.
C28_OrderIndependent ==
  pc = "detected" => \A reordered \in Reorderings(allSessions) : SameReport(clashes, detectClashes(reordered))

\* A step in which a call ends with the error of its remote get
IsRejected == Len(returned') = Len(returned) + 1 /\ returned'[Len(returned')].via = "error"
RejectedRight ==
  IsRejected =>
    /\ cachedSpreadsheet' = cachedSpreadsheet
    /\ cacheTimestamp' = cacheTimestamp
    /\ returned'[Len(returned')].value = Null
    /\ \E entry \in pending : entry.call = returned'[Len(returned')].call /\ pending' = pending \ {entry}
ErrorsCarryNoDocument ==
  \A i \in 1..Len(returned) :
    (returned[i].value # Null) => (returned[i].via = "fetch" \/ (returned[i].via = "cache" /\ returned[i].at - returned[i].stamp < 1800000))

\* C29: a call of fetchSpreadsheet whose remote get fails ends with the
\* error and no document, and leaves the cached document and the cache
\* timestamp as they were; a document reaches a caller only from a remote
\* get that answered or from a cache younger than 30 minutes.
C29_FailureLeavesCache == []ErrorsCarryNoDocument /\ [][RejectedRight]_vars
C29_Witness ==
  /\ Len(returned) = 2
  /\ returned[1].via = "fetch"
  /\ returned[2].via = "error"
  /\ returned[2].cached = returned[1].value
  /\ returned[2].start - returned[2].stamp >= 1800000
  /\ cachedSpreadsheet = returned[1].value
  /\ cacheTimestamp = returned[1].start

\* The product of the numbers of allowed sections of the first n selected
\* courses
RECURSIVE ProductOfCounts(_)
ProductOfCounts(n) ==
  IF n = 0 THEN 1
  ELSE Cardinality(AllowedSections(selectedCourseNames[n])) * ProductOfCounts(n - 1)
LeafOfDepth(assigned, depth) ==
  /\ Cardinality(DOMAIN assigned) = depth
  /\ DOMAIN assigned = Range(selectedCourseNames)
  /\ \A c \in DOMAIN assigned : assigned[c] \in AllowedSections(c)
BoundedLeaves(leaves, depth, most) ==
  /\ Len(leaves) \in 1..most
  /\ \A n \in 1..Len(leaves) : LeafOfDepth(leaves[n], depth)
  /\ \A m, n \in 1..Len(leaves) : leaves[m] = leaves[n] => m = n

\* C30: a search that runs ends, and the complete assignments it evaluated
\* are at most the product of the numbers of available sections of the
\* selected courses; each assigns one section to every selected course and
\* to nothing else (the depth of the recursion is the number of selected
\* courses), and none is evaluated twice.
C30_SearchBounded ==
  SearchRan => BoundedLeaves(optimal.leaves, Len(selectedCourseNames), ProductOfCounts(Len(selectedCourseNames)))
C30_Witness ==
  /\ SearchRan
  /\ Len(selectedCourseNames) = 3
  /\ ProductOfCounts(3) = 8
  /\ Len(optimal.leaves) = 8

====
